---- MODULE Spec2Model ----
(***************************************************************************)
(* Admission / scheduling controller of AsyncWebServer (queue-limits       *)
(* variant): the connection-accept callback, processQueue, _dequeue and    *)
(* setQueueLimits over the request queue, in the default single-threaded   *)
(* build (guard() expands to nothing, callbacks run to completion) and, in *)
(* MutexSpec, in the two-thread build where guard() locks _mutex; and      *)
(* the heap buffers of DynamicBuffer.h: DynamicBuffer objects and the       *)
(* buffer lists allocateList builds.                                       *)
(***************************************************************************)
EXTENDS Integers, Sequences, FiniteSets, TLC

\* ---------------------------------------------------------------- bounds
\* Connections the transport delivers in one behaviour.
MaxConn == 3
\* Times handlers may defer their request in one behaviour.
MaxDefer == 1

\* DynamicBuffer objects the buffer operations work on.
MaxBuf == 2
\* Largest length asked of a DynamicBuffer or held by a String.
MaxLen == 1
\* Heap blocks malloc can hand out at one time.
MaxAddr == 2
\* Largest total asked of allocateList.
MaxTotal == 5
\* Largest max_buffer_size asked of allocateList.
MaxChunk == 3

\* Width in bits of size_t and ptrdiff_t in the Walkable arithmetic.
SizeBits == 4
\* Largest storage a Walkable is built over.
MaxCap == 3
\* BufferListPrint: elements a chain may hold, bytes per element, bytes per write.
MaxElems == 2
MaxElemSize == 2
MaxWrite == 2
\* LinkedList: add calls per list (and node addresses), and element values.
MaxAdds == 3
MaxVal == 2
\* SharedBuffer: objects that may hold the same buffer.
MaxHolders == 2
\* Mutex build: connections the transport delivers in one behaviour.
MaxReq == 2

\* ------------------------------------------------------ program constants
ASYNCWEBSERVER_MINIMUM_ALLOC == 1024
ASYNCWEBSERVER_MINIMUM_HEAP == 2048
\* _parseState tags the controller tests for.
ACTIVE == 100
QUEUED == 200
DEFERRED == 201
\* sizeof(msg)-1 of the minimal 503 response.
Msg503Len == 53
\* nullptr for request pointers.
NullReq == 0
\* nullptr for char*.
NullPtr == 0
\* nullptr for LinkedListNode*.
NullNode == 0
\* An empty std::shared_ptr<DynamicBuffer>.
NullBlock == 0

\* ------------------------------------------------------------ input sets
\* Values ESP.getFreeHeap() / ESP.getMaxFreeBlockSize() may report.
HeapValues ==
    { [free |-> 2048, block |-> 2048],
      [free |-> 3500, block |-> 900],
      [free |-> 3500, block |-> 3000],
      [free |-> 6000, block |-> 4000] }

\* AsyncWebServerQueueLimits values the application may configure.
LimitValues ==
    { [nMax |-> 0, nParallel |-> 0, requestHeapRequired |-> 0, queueHeapRequired |-> 0],
      [nMax |-> 2, nParallel |-> 1, requestHeapRequired |-> 1000, queueHeapRequired |-> 3000],
      [nMax |-> 0, nParallel |-> 2, requestHeapRequired |-> 1000, queueHeapRequired |-> 4000],
      [nMax |-> 3, nParallel |-> 0, requestHeapRequired |-> 4000, queueHeapRequired |-> 0] }

ConnIds == 1..MaxConn

VARIABLES
    _requestQueue,        \* Seq of [id, _parseState]: the LinkedList of requests
    _queueLimits,         \* AsyncWebServerQueueLimits
    _queueActive,         \* reentrancy guard of processQueue
    heap,                 \* what the heap probes report now
    pc,                   \* "idle", "handler" (a dispatched handler runs), "undefer"
    next_queued_request,  \* processQueue local (request id or NullReq)
    conn,                 \* per connection: "none","queued","rejected","sent503","closed"
    nextConn,             \* next connection the transport will deliver
    deferCount,           \* deferrals so far (bounded by MaxDefer)
    hookCalls,            \* per request: times the queue's OnRemove hook ran
    passStart,            \* what the running pass found when it started
    passLog,              \* ids dispatched by the running pass, in order
    passHeapLow,          \* heap stayed below the combined threshold all pass
    passZeroActive,       \* every dispatch of the pass saw zero ACTIVE entries
    ev,                   \* the last event: [op, id, res]
    mem,                  \* the heap: per address the size of its block, 0 when free
    slots,                \* the DynamicBuffer objects: [live, _data, _len]
    released,             \* pointers release() handed to the caller
    bev,                  \* the last buffer operation: [op, dst, src, len]
    buffers,              \* allocateList: the list being built / returned
    total,                \* allocateList: bytes still to allocate
    listReq,              \* allocateList: the arguments [total, max_buffer_size]
    lpc,                  \* allocateList: "idle", "loop", "tail", "done"
    allocFailed,          \* allocateList: malloc refused a block during the call
    wbuf,                 \* Walkable: the bytes of _buf (<< >> when it holds nothing)
    _left,                \* Walkable: bytes consumed from the left
    _right,               \* Walkable: bytes consumed from the right
    wev,                  \* Walkable: the last call [op, arg, ok, ret]
    chain,                \* BufferListPrint: _list, the bytes of each element
    _buffer_size,         \* BufferListPrint: size of the elements it may add, 0 for none
    _next,                \* BufferListPrint: position of the cursor element, Len + 1 at end()
    _offset,              \* BufferListPrint: bytes used of the cursor element
    _valid,               \* BufferListPrint: no write was cut short so far
    accepted,             \* the bytes the writes reported as written, in order
    pbuf,                 \* BufferPrint: the bytes of _buf
    offset,               \* BufferPrint: offset
    pev,                  \* the last sink call [op, len, ret, bret, was]
    lnodes,               \* LinkedList: the nodes by address [live, value, next, id]
    _root,                \* LinkedList: first node, NullNode when empty
    _last,                \* LinkedList: last node, NullNode when empty
    _onRemove,            \* LinkedList: a removal hook is installed
    hooked,               \* values the hook was called with during the last call
    adds,                 \* add calls since the list was constructed or freed
    removed,              \* removals that returned true since then
    lst,                  \* "none" (no list), "live", "crashed"
    lev,                  \* the last list call [op, P, t, where, ret]
    sblocks,              \* SharedBuffer: the shared DynamicBuffers [live, bytes]
    shandles,             \* SharedBuffer: per object the block _buf points to, NullBlock for none
    scopy,                \* the bytes of the DynamicBuffer the last copy() returned
    sst,                  \* "live", "crashed"
    sev,                  \* the last SharedBuffer call [op, h, ret]
    _mutex,               \* mutex build: the thread that holds _mutex, NoThread when free
    tpc,                  \* mutex build: per thread, its position in the controller's code
    tcall,                \* mutex build: per thread, where its controller call returns to
    tloc,                 \* mutex build: per thread, the locals of its call
    deleted,              \* mutex build: requests whose destructor has started
    mst                   \* mutex build: "live", "crashed"

bufVars == << slots, released, bev >>

listVars == << buffers, total, listReq, lpc, allocFailed >>

walkVars == << wbuf, _left, _right, wev >>

printVars == << chain, _buffer_size, _next, _offset, _valid, accepted, pbuf, offset, pev >>

linkVars == << lnodes, _root, _last, _onRemove, hooked, adds, removed, lst, lev >>

sharedVars == << sblocks, shandles, scopy, sst, sev >>

mutexVars == << _mutex, tpc, tcall, tloc, deleted, mst >>

memVars == << mem, bufVars, listVars, walkVars, printVars, linkVars, sharedVars, mutexVars >>

ctlVars ==
    << _requestQueue, _queueLimits, _queueActive, heap, pc, next_queued_request,
       conn, nextConn, deferCount, hookCalls, passStart, passLog, passHeapLow,
       passZeroActive, ev >>

vars == << ctlVars, memVars >>

passVars == << passStart, passLog, passHeapLow, passZeroActive >>

\* ------------------------------------------------------------- LinkedList
\* The request queue is constructed with an empty OnRemove function.
RequestQueueOnRemove == FALSE

Ids(q) == { q[i].id : i \in 1..Len(q) }

IndexOf(q, r) ==
    IF \E i \in 1..Len(q) : q[i].id = r
    THEN CHOOSE i \in 1..Len(q) : q[i].id = r /\ \A j \in 1..(i-1) : q[j].id # r
    ELSE 0

StateOf(q, r) == q[IndexOf(q, r)]._parseState

\* Variant of add that links the new node in front of _root.
ListAddHead(q, e) == <<e>> \o q
\* LinkedList::add: link the new node after _last.
ListAdd(q, e) == Append(q, e)

\* LinkedList::length
ListLength(q) == Len(q)

\* Variant of remove that unlinks the root whatever its value.
ListRemoveHead(q, r) ==
    IF Len(q) = 0 THEN q ELSE Tail(q)
\* LinkedList::remove(const T&): unlink the first node whose value equals r.
ListRemove(q, r) ==
    LET i == IndexOf(q, r)
    IN  IF i = 0 THEN q
        ELSE SubSeq(q, 1, i-1) \o SubSeq(q, i+1, Len(q))

\* LinkedList::_remove: the hook runs only when the function is non-empty.
HookAfterRemove(h, q, r) ==
    IF IndexOf(q, r) # 0 /\ RequestQueueOnRemove
    THEN [h EXCEPT ![r] = @ + 1]
    ELSE h

\* ------------------------------------------------------------ heap probes
\* Variant of heap_ok that accepts a free heap equal to minHeap.
heap_okInclusive(minHeap) ==
    /\ heap.free >= minHeap
    /\ heap.block > ASYNCWEBSERVER_MINIMUM_ALLOC
\* static bool heap_ok(size_t minHeap)
heap_ok(minHeap) ==
    /\ heap.free > minHeap
    /\ heap.block > ASYNCWEBSERVER_MINIMUM_ALLOC

\* requestHeapRequired + queueHeapRequired (size_t; the values of LimitValues
\* stay far below the 32-bit width, so the sum never wraps).
HeapThreshold(l) == l.requestHeapRequired + l.queueHeapRequired

\* auto heap_ok = ESP.getFreeHeap() >= (...)
PassHeapOk(l) == heap.free >= HeapThreshold(l)

\* ----------------------------------------------------------- queue scans
ActiveCount(q) == Cardinality({ i \in 1..Len(q) : q[i]._parseState = ACTIVE })

\* Variant of the scan that keeps the last entry tagged QUEUED.
LastQueued(q) ==
    IF \E i \in 1..Len(q) : q[i]._parseState = QUEUED
    THEN q[CHOOSE i \in 1..Len(q) :
              /\ q[i]._parseState = QUEUED
              /\ \A j \in (i+1)..Len(q) : q[j]._parseState # QUEUED].id
    ELSE NullReq
\* The scan keeps the first entry tagged QUEUED (!next_queued_request).
FirstQueued(q) ==
    IF \E i \in 1..Len(q) : q[i]._parseState = QUEUED
    THEN q[CHOOSE i \in 1..Len(q) :
              /\ q[i]._parseState = QUEUED
              /\ \A j \in 1..(i-1) : q[j]._parseState # QUEUED].id
    ELSE NullReq

\* Variant of the parallel break without the nParallel > 0 test.
ParallelBlocksNoZero(l, n) == n >= l.nParallel
\* Variant of the parallel break that lets one entry too many run.
ParallelBlocksOffByOne(l, n) == (l.nParallel > 0) /\ (n > l.nParallel)
\* break: lots running
ParallelBlocks(l, n) == (l.nParallel > 0) /\ (n >= l.nParallel)

\* Variant of the heap break without the always-allow-one exception.
HeapBlocksAlways(n, ok) == ~ok
\* break: heap not ok (never with zero ACTIVE entries)
HeapBlocks(n, ok) == (n > 0) /\ ~ok

\* ---------------------------------------------------- request (external)
\* Tag a newly constructed request carries when it is enqueued.
NewRequestState == QUEUED

SetState(q, r, s) ==
    [ i \in 1..Len(q) |-> IF q[i].id = r THEN [q[i] EXCEPT !._parseState = s] ELSE q[i] ]

\* AsyncWebServerRequest::_handleRequest: tag ACTIVE, then run the handler.
_handleRequest(q, r) == SetState(q, r, ACTIVE)

\* ---------------------------------------------------------------- the heap
Addrs == 1..MaxAddr
Lens == 0..MaxLen

FreeAddrs(m) == { a \in Addrs : m[a] = 0 }

\* malloc as the buffers use it: the lowest free address when the heap grants
\* the block (ok) and one is left, nullptr otherwise.
malloc(m, ok) ==
    IF ok /\ FreeAddrs(m) # {}
    THEN CHOOSE a \in FreeAddrs(m) : \A b \in FreeAddrs(m) : a <= b
    ELSE NullPtr

\* free(p); free(nullptr) does nothing.
free(m, p) == IF p = NullPtr THEN m ELSE [m EXCEPT ![p] = 0]

\* ---------------------------------------------------------- DynamicBuffer
\* DynamicBuffer() : _data(nullptr), _len(0)
EmptyBuffer == [_data |-> NullPtr, _len |-> 0]

\* Variant of the sized constructor that keeps the asked length when the
\* allocation failed.
SizedBufferKeepLen(m, len, ok) ==
    LET p == IF len = 0 THEN NullPtr ELSE malloc(m, ok)
    IN  [ buf |-> [_data |-> p, _len |-> len],
          mem |-> IF p = NullPtr THEN m ELSE [m EXCEPT ![p] = len] ]
\* explicit DynamicBuffer(size_t len): a block of len bytes, or the empty
\* buffer when len is 0 or the allocation fails.  Yields the buffer and the
\* heap after the call.
SizedBuffer(m, len, ok) ==
    LET p == IF len = 0 THEN NullPtr ELSE malloc(m, ok)
    IN  [ buf |-> [_data |-> p, _len |-> IF p = NullPtr THEN 0 ELSE len],
          mem |-> IF p = NullPtr THEN m ELSE [m EXCEPT ![p] = len] ]

\* DynamicBuffer(const char* buf, size_t len) : DynamicBuffer(len)
\*   { if (_data) memcpy(_data, buf, len); }   (the bytes are not modelled)
BytesBuffer(m, len, ok) == SizedBuffer(m, len, ok)

\* DynamicBuffer(const DynamicBuffer& d) : DynamicBuffer(d._data, d._len)
CopyBuffer(m, d, ok) == BytesBuffer(m, d._len, ok)

\* void clear(): free the block, leave the buffer empty.
ClearBuffer(m, b) == [ buf |-> EmptyBuffer, mem |-> free(m, b._data) ]

\* Variant of the move constructor that leaves the source as it was.
MoveConstructedKeepSource(d) == [ dst |-> d, src |-> d ]
\* DynamicBuffer(DynamicBuffer&& d) : _data(d._data), _len(d._len)
\*   { d._data = nullptr; d._len = 0; }
MoveConstructed(d) == [ dst |-> d, src |-> EmptyBuffer ]

\* Variant of move assignment that overwrites the destination and empties
\* the source.
MoveAssignedOverwrite(b, d) == [ dst |-> d, src |-> EmptyBuffer ]
\* operator=(DynamicBuffer&& d): std::swap(_data, d._data);
\* std::swap(_len, d._len);  b is *this, d the source.
MoveAssigned(b, d) == [ dst |-> d, src |-> b ]

\* DynamicBuffer(String&& s) : _data(nullptr), _len(s.length()).  heapBuf:
\* the String owns a heap buffer, which DynamicBufferString::release() hands
\* over (len + 1 bytes at least, allocated when the String was built);
\* otherwise release() returns nullptr and the contents are copied:
\* *this = DynamicBuffer(rb), the temporary being destroyed afterwards.
StringBuffer(m, heapBuf, len, ok) ==
    IF heapBuf
    THEN LET p == malloc(m, TRUE)
         IN  [ buf |-> [_data |-> p, _len |-> len],
               mem |-> [m EXCEPT ![p] = len + 1] ]
    ELSE LET t == BytesBuffer(m, len, ok)
             sw == MoveAssigned([_data |-> NullPtr, _len |-> len], t.buf)
         IN  [ buf |-> sw.dst, mem |-> ClearBuffer(t.mem, sw.src).mem ]

\* A DynamicBuffer object that is not constructed.
NoBuffer == [live |-> FALSE, _data |-> NullPtr, _len |-> 0]

Live(b) == [live |-> TRUE, _data |-> b._data, _len |-> b._len]

Fields(o) == [_data |-> o._data, _len |-> o._len]

BufIds == 1..MaxBuf

BufEvent(o, d, sr, l) == [op |-> o, dst |-> d, src |-> sr, len |-> l]

BufFrame == UNCHANGED << ctlVars, listVars, walkVars, printVars, linkVars, sharedVars, mutexVars >>

DefaultConstruct(d) ==
    /\ ~slots[d].live
    /\ slots' = [slots EXCEPT ![d] = Live(EmptyBuffer)]
    /\ bev' = BufEvent("default", d, 0, 0)
    /\ UNCHANGED << mem, released >>
    /\ BufFrame

Construct(d, len, ok) ==
    /\ ~slots[d].live
    /\ LET r == SizedBuffer(mem, len, ok)
       IN  /\ slots' = [slots EXCEPT ![d] = Live(r.buf)]
           /\ mem' = r.mem
    /\ bev' = BufEvent("sized", d, 0, len)
    /\ UNCHANGED released
    /\ BufFrame

ConstructBytes(d, len, ok) ==
    /\ ~slots[d].live
    /\ LET r == BytesBuffer(mem, len, ok)
       IN  /\ slots' = [slots EXCEPT ![d] = Live(r.buf)]
           /\ mem' = r.mem
    /\ bev' = BufEvent("bytes", d, 0, len)
    /\ UNCHANGED released
    /\ BufFrame

CopyConstruct(d, sr, ok) ==
    /\ ~slots[d].live
    /\ slots[sr].live
    /\ LET r == CopyBuffer(mem, Fields(slots[sr]), ok)
       IN  /\ slots' = [slots EXCEPT ![d] = Live(r.buf)]
           /\ mem' = r.mem
    /\ bev' = BufEvent("copy", d, sr, slots[sr]._len)
    /\ UNCHANGED released
    /\ BufFrame

\* operator=(const DynamicBuffer& d) { *this = DynamicBuffer(d); }: the
\* temporary takes what *this held and frees it when it is destroyed.
CopyAssign(d, sr, ok) ==
    /\ d # sr
    /\ slots[d].live
    /\ slots[sr].live
    /\ LET r == CopyBuffer(mem, Fields(slots[sr]), ok)
           sw == MoveAssigned(Fields(slots[d]), r.buf)
       IN  /\ slots' = [slots EXCEPT ![d] = Live(sw.dst)]
           /\ mem' = ClearBuffer(r.mem, sw.src).mem
    /\ bev' = BufEvent("copyassign", d, sr, slots[sr]._len)
    /\ UNCHANGED released
    /\ BufFrame

MoveConstruct(d, sr) ==
    /\ ~slots[d].live
    /\ slots[sr].live
    /\ LET r == MoveConstructed(Fields(slots[sr]))
       IN  slots' = [slots EXCEPT ![d] = Live(r.dst), ![sr] = Live(r.src)]
    /\ bev' = BufEvent("moveconstruct", d, sr, slots[sr]._len)
    /\ UNCHANGED << mem, released >>
    /\ BufFrame

MoveAssign(d, sr) ==
    /\ d # sr
    /\ slots[d].live
    /\ slots[sr].live
    /\ LET r == MoveAssigned(Fields(slots[d]), Fields(slots[sr]))
       IN  slots' = [slots EXCEPT ![d] = Live(r.dst), ![sr] = Live(r.src)]
    /\ bev' = BufEvent("moveassign", d, sr, slots[sr]._len)
    /\ UNCHANGED << mem, released >>
    /\ BufFrame

\* char* release() { char* temp = _data; _data = nullptr; _len = 0; return temp; }
Release(d) ==
    /\ slots[d].live
    /\ slots' = [slots EXCEPT ![d] = Live(EmptyBuffer)]
    /\ released' = released \cup ({slots[d]._data} \ {NullPtr})
    /\ bev' = BufEvent("release", d, 0, slots[d]._len)
    /\ UNCHANGED mem
    /\ BufFrame

Clear(d) ==
    /\ slots[d].live
    /\ LET r == ClearBuffer(mem, Fields(slots[d]))
       IN  /\ slots' = [slots EXCEPT ![d] = Live(r.buf)]
           /\ mem' = r.mem
    /\ bev' = BufEvent("clear", d, 0, slots[d]._len)
    /\ UNCHANGED released
    /\ BufFrame

\* ~DynamicBuffer() { clear(); }
Destroy(d) ==
    /\ slots[d].live
    /\ mem' = ClearBuffer(mem, Fields(slots[d])).mem
    /\ slots' = [slots EXCEPT ![d] = NoBuffer]
    /\ bev' = BufEvent("destroy", d, 0, slots[d]._len)
    /\ UNCHANGED released
    /\ BufFrame

ConstructFromString(d, heapBuf, len, ok) ==
    /\ ~slots[d].live
    /\ heapBuf => FreeAddrs(mem) # {}
    /\ LET r == StringBuffer(mem, heapBuf, len, ok)
       IN  /\ slots' = [slots EXCEPT ![d] = Live(r.buf)]
           /\ mem' = r.mem
    /\ bev' = BufEvent(IF heapBuf THEN "stringmove" ELSE "stringcopy", d, 0, len)
    /\ UNCHANGED released
    /\ BufFrame

\* The caller frees a block release() gave it.
CallerFree(p) ==
    /\ p \in released
    /\ mem' = free(mem, p)
    /\ released' = released \ {p}
    /\ bev' = BufEvent("free", 0, 0, 0)
    /\ UNCHANGED slots
    /\ BufFrame

\* ------------------------------------------------------------ allocateList
Min(a, b) == IF a < b THEN a ELSE b

RECURSIVE totalSize(_)
\* size_t totalSize(const DynamicBufferList&): std::accumulate of size()
totalSize(l) == IF l = << >> THEN 0 ELSE Head(l)._len + totalSize(Tail(l))

RECURSIVE FreeAll(_, _)
\* buffers.clear() / ~list: every element's destructor frees its block.
FreeAll(m, l) == IF l = << >> THEN m ELSE FreeAll(free(m, Head(l)._data), Tail(l))

ListFrame == UNCHANGED << ctlVars, bufVars, walkVars, printVars, linkVars, sharedVars, mutexVars >>

\* allocateDynamicBufferList / allocateSharedBufferList(t, mx) is called:
\* list_type buffers;
AllocateListCall(t, mx) ==
    /\ lpc = "idle"
    /\ listReq' = [total |-> t, max_buffer_size |-> mx]
    /\ total' = t
    /\ buffers' = << >>
    /\ allocFailed' = FALSE
    /\ lpc' = "loop"
    /\ UNCHANGED mem
    /\ ListFrame

\* auto alloc_size = std::min(total, max_buffer_size);
AllocSize(tot, mx) == Min(tot, mx)

\* One test of while (total) and, when it holds, one iteration of the body.
AllocateListLoop(ok) ==
    /\ lpc = "loop"
    /\ IF total = 0
       THEN /\ lpc' = "tail"
            /\ UNCHANGED << mem, buffers, total, allocFailed >>
       ELSE LET alloc_size == AllocSize(total, listReq.max_buffer_size)
                r == SizedBuffer(mem, alloc_size, ok)
            IN  /\ buffers' = Append(buffers, r.buf)
                /\ mem' = r.mem
                /\ allocFailed' = (allocFailed \/ (alloc_size > 0 /\ r.buf._data = NullPtr))
                /\ IF r.buf._data = NullPtr
                   THEN lpc' = "tail" /\ total' = total
                   ELSE lpc' = "loop" /\ total' = total - alloc_size
    /\ UNCHANGED listReq
    /\ ListFrame

\* Variant of the roll-back that returns whatever was allocated.
RollBackNever(l, tot) == l
\* if (total) buffers.clear();
RollBack(l, tot) == IF tot # 0 THEN << >> ELSE l

\* The code after the loop, and return buffers.
AllocateListReturn ==
    /\ lpc = "tail"
    /\ buffers' = RollBack(buffers, total)
    /\ mem' = IF buffers' = << >> THEN FreeAll(mem, buffers) ELSE mem
    /\ lpc' = "done"
    /\ UNCHANGED << total, listReq, allocFailed >>
    /\ ListFrame

\* The caller lets go of the returned list.
ListDestroy ==
    /\ lpc = "done"
    /\ mem' = FreeAll(mem, buffers)
    /\ buffers' = << >>
    /\ total' = 0
    /\ lpc' = "idle"
    /\ UNCHANGED << listReq, allocFailed >>
    /\ ListFrame

\* ---------------------------------------------------------------- Walkable
\* size_t and ptrdiff_t are SizeBits wide.
SizeMod == 2^SizeBits
PtrdiffMin == -(2^(SizeBits-1))
PtrdiffMax == 2^(SizeBits-1) - 1
Deltas == PtrdiffMin..PtrdiffMax

\* Conversion to size_t, and size_t arithmetic: modulo 2^SizeBits.
U(x) == x % SizeMod

\* Byte values the callers write.
ByteValues == {1, 2}
\* What a byte of a new, not yet written block may hold.
FillValues == {0, 1}

RECURSIVE ByteSeqs(_)
\* The byte strings of length n.
ByteSeqs(n) ==
    IF n = 0 THEN { << >> }
    ELSE { Append(b, v) : b \in ByteSeqs(n-1), v \in ByteValues }

ByteSeqsUpTo(n) == UNION { ByteSeqs(k) : k \in 0..n }

Fresh(n, g) == [i \in 1..n |-> g]

\* abs(count): the magnitude; abs of the most negative value is undefined and
\* gives that value back or the largest one.
AbsOutcomes(count) ==
    IF count = PtrdiffMin THEN {PtrdiffMin, PtrdiffMax}
    ELSE {IF count < 0 THEN -count ELSE count}

\* size_t size() const { return _buf.size() - (_left + _right); }
WalkSize(buf, l, r) == U(Len(buf) - U(l + r))

\* data() .. data() + size(): the bytes of the window.
WalkData(buf, l, r) == SubSeq(buf, l + 1, Len(buf) - r)

\* Variant of advance that adds a negative count without the abs test.
AdvancedNoFloor(off, other, cap, count, a) ==
    IF count > 0
    THEN Min(U(off + count), U(cap - other))
    ELSE U(off + count)
\* Variant of advance that adds a positive count without the std::min.
AdvancedNoCeil(off, other, cap, count, a) ==
    IF count > 0
    THEN U(off + count)
    ELSE IF U(a) <= off THEN U(off + count) ELSE 0
\* The body of advance (off = _left, other = _right) and of radvance (off =
\* _right, other = _left); a is what abs(count) gave.
Advanced(off, other, cap, count, a) ==
    IF count > 0
    THEN Min(U(off + count), U(cap - other))
    ELSE IF U(a) <= off THEN U(off + count) ELSE 0

\* Variant of reallocate that copies from the start of the storage when it
\* shrinks.
ReallocatedFromStart(buf, l, r, s, ok, g) ==
    LET vis == WalkData(buf, l, r)
        sz == WalkSize(buf, l, r)
        same == [buf |-> buf, l |-> l, r |-> r]
    IN  IF s <= sz
        THEN LET new_buf == IF ok /\ s > 0 THEN SubSeq(buf, 1, s) ELSE << >>
             IN  IF new_buf # << >> THEN [buf |-> new_buf, l |-> 0, r |-> 0] ELSE same
        ELSE LET new_buf == IF ok THEN Fresh(s, g) ELSE << >>
             IN  IF new_buf # << >>
                 THEN [buf |-> vis \o SubSeq(new_buf, sz + 1, s), l |-> 0, r |-> 0]
                 ELSE same
\* size_t reallocate(size_t s): the storage and offsets after the call.  ok:
\* malloc grants the block; g: what the new block's bytes hold.
\*   s <= size(): new_buf = buffer_type(data(), s);
\*   else:        new_buf = buffer_type(s); memcpy(new_buf.data(), data(), size());
\*   if (new_buf) { _buf = std::move(new_buf); reset(); }
Reallocated(buf, l, r, s, ok, g) ==
    LET vis == WalkData(buf, l, r)
        sz == WalkSize(buf, l, r)
        same == [buf |-> buf, l |-> l, r |-> r]
    IN  IF s <= sz
        THEN LET new_buf == IF ok /\ s > 0 THEN SubSeq(vis, 1, s) ELSE << >>
             IN  IF new_buf # << >> THEN [buf |-> new_buf, l |-> 0, r |-> 0] ELSE same
        ELSE LET new_buf == IF ok THEN Fresh(s, g) ELSE << >>
             IN  IF new_buf # << >>
                 THEN [buf |-> vis \o SubSeq(new_buf, sz + 1, s), l |-> 0, r |-> 0]
                 ELSE same

WalkEvent(o, a, k, rt) == [op |-> o, arg |-> a, ok |-> k, ret |-> rt]

WalkFrame == UNCHANGED << ctlVars, mem, bufVars, listVars, printVars, linkVars, sharedVars, mutexVars >>

\* Walkable() : _left(0), _right(0)
WalkInit ==
    /\ wbuf = << >>
    /\ _left = 0
    /\ _right = 0
    /\ wev = WalkEvent("init", 0, TRUE, 0)

\* Walkable(const char* buf, size_t len) : _buf(buf, len), _left(0), _right(0)
WalkConstruct(bytes, ok) ==
    /\ wbuf' = IF ok THEN bytes ELSE << >>
    /\ _left' = 0
    /\ _right' = 0
    /\ wev' = WalkEvent("construct", Len(bytes), ok, 0)
    /\ WalkFrame

advance(count) ==
    /\ \E a \in AbsOutcomes(count) :
         _left' = Advanced(_left, _right, Len(wbuf), count, a)
    /\ wev' = WalkEvent("advance", count, TRUE, 0)
    /\ UNCHANGED << wbuf, _right >>
    /\ WalkFrame

radvance(count) ==
    /\ \E a \in AbsOutcomes(count) :
         _right' = Advanced(_right, _left, Len(wbuf), count, a)
    /\ wev' = WalkEvent("radvance", count, TRUE, 0)
    /\ UNCHANGED << wbuf, _left >>
    /\ WalkFrame

\* size_t resize(size_t s): contract the window to s bytes.
resize(s) ==
    /\ LET bs == U(Len(wbuf) - _left)
       IN  _right' = IF s <= bs THEN U(bs - s) ELSE 0
    /\ wev' = WalkEvent("resize", s, TRUE, WalkSize(wbuf, _left, _right'))
    /\ UNCHANGED << wbuf, _left >>
    /\ WalkFrame

\* void reset() { _left = _right = 0; }
reset ==
    /\ _left' = 0
    /\ _right' = 0
    /\ wev' = WalkEvent("reset", 0, TRUE, 0)
    /\ UNCHANGED wbuf
    /\ WalkFrame

reallocate(s, ok, g) ==
    /\ LET r == Reallocated(wbuf, _left, _right, s, ok, g)
       IN  /\ wbuf' = r.buf
           /\ _left' = r.l
           /\ _right' = r.r
           /\ wev' = WalkEvent("reallocate", s, ok, Len(r.buf))
    /\ WalkFrame

\* ------------------------------------- BufferListPrint and BufferPrint
\* The sizes of the elements of a chain handed to BufferListPrint.
SizeSeqs == UNION { [1..k -> 0..MaxElemSize] : k \in 0..MaxElems }

RECURSIVE Flat(_)
\* The contents of the elements of a list, one after the other.
Flat(c) == IF c = << >> THEN << >> ELSE Head(c) \o Flat(Tail(c))

\* memcpy(data + o, buffer, Len(bytes)) into the block holding elem.
StoredAtStart(elem, o, bytes) ==
    [i \in 1..Len(elem) |-> IF i <= Len(bytes) THEN bytes[i] ELSE elem[i]]
Stored(elem, o, bytes) ==
    [i \in 1..Len(elem) |->
        IF i > o /\ i <= o + Len(bytes) THEN bytes[i - o] ELSE elem[i]]

PrintResult(c, n, o, v, w) ==
    [chain |-> c, next |-> n, off |-> o, valid |-> v, written |-> w]

RECURSIVE WriteLoopKeepFailed(_, _, _, _, _, _, _)
\* Variant of the loop without the pop_back of the element that got no block.
WriteLoopKeepFailed(c, n, o, bs, w, rest, b) ==
    IF rest = << >> THEN PrintResult(c, n, o, TRUE, w)
    ELSE IF n = Len(c) + 1 /\ (bs = 0 \/ b = 0)
         THEN PrintResult(IF bs > 0 THEN Append(c, << >>) ELSE c, n, o, FALSE, w)
         ELSE LET grown == n = Len(c) + 1
                  c1 == IF grown THEN Append(c, Fresh(bs, 0)) ELSE c
                  b1 == IF grown THEN b - 1 ELSE b
                  to_write == Min(U(Len(c1[n]) - o), Len(rest))
                  c2 == [c1 EXCEPT ![n] = Stored(c1[n], o, SubSeq(rest, 1, to_write))]
                  o2 == U(o + to_write)
                  full == o2 = Len(c1[n])
              IN  WriteLoopKeepFailed(c2, IF full THEN n + 1 ELSE n, IF full THEN 0 ELSE o2,
                                      bs, w + to_write,
                                      SubSeq(rest, to_write + 1, Len(rest)), b1)
RECURSIVE WriteLoop(_, _, _, _, _, _, _)
\* while(size) { ... } of BufferListPrint::write.  bs: _buffer_size; w:
\* written; rest: the bytes not yet copied; b: how many more blocks malloc
\* will grant during this call.
WriteLoop(c, n, o, bs, w, rest, b) ==
    IF rest = << >> THEN PrintResult(c, n, o, TRUE, w)
    ELSE IF n = Len(c) + 1 /\ (bs = 0 \/ b = 0)
         THEN \* no growth, or emplace_back gave an empty element: pop_back
              PrintResult(c, n, o, FALSE, w)
         ELSE LET grown == n = Len(c) + 1
                  c1 == IF grown THEN Append(c, Fresh(bs, 0)) ELSE c
                  b1 == IF grown THEN b - 1 ELSE b
                  to_write == Min(U(Len(c1[n]) - o), Len(rest))
                  c2 == [c1 EXCEPT ![n] = Stored(c1[n], o, SubSeq(rest, 1, to_write))]
                  o2 == U(o + to_write)
                  full == o2 = Len(c1[n])
              IN  WriteLoop(c2, IF full THEN n + 1 ELSE n, IF full THEN 0 ELSE o2,
                            bs, w + to_write,
                            SubSeq(rest, to_write + 1, Len(rest)), b1)

\* Variant of write without the test of _valid.
WrittenNoLatch(c, n, o, v, bs, bytes, b) ==
    LET r == WriteLoop(c, n, o, bs, 0, bytes, b)
    IN  [r EXCEPT !.valid = v /\ r.valid]
\* size_t BufferListPrint::write(const uint8_t *buffer, size_t size)
Written(c, n, o, v, bs, bytes, b) ==
    IF ~v THEN PrintResult(c, n, o, v, 0)
    ELSE WriteLoop(c, n, o, bs, 0, bytes, b)

\* size_t BufferPrint::write(const uint8_t *buffer, size_t size):
\*   size = std::min(size, _buf.size() - offset);
\*   memcpy(_buf.data(), buffer, size); offset += size; return size;
BufWritten(buf, off, bytes) ==
    LET size == Min(Len(bytes), U(Len(buf) - off))
    IN  [buf |-> Stored(buf, 0, SubSeq(bytes, 1, size)),
         offset |-> U(off + size),
         written |-> size]

\* was: valid() before the call.
PrintEvent(o, l, r, br, v) == [op |-> o, len |-> l, ret |-> r, bret |-> br, was |-> v]

PrintFrame == UNCHANGED << ctlVars, mem, bufVars, listVars, walkVars, linkVars, sharedVars, mutexVars >>

\* No sink constructed yet.
PrintInit ==
    /\ chain = << >>
    /\ _buffer_size = 0
    /\ _next = 1
    /\ _offset = 0
    /\ _valid = TRUE
    /\ accepted = << >>
    /\ pbuf = << >>
    /\ offset = 0
    /\ pev = PrintEvent("init", 0, 0, 0, TRUE)

\* BufferListPrint(list, buffer_size) over a list of elements of the given
\* sizes, and BufferPrint(buf) over a buffer as large as that list.
PrintConstruct(sizes, bs) ==
    /\ pev.op = "init"
    /\ chain' = [i \in 1..Len(sizes) |-> Fresh(sizes[i], 0)]
    /\ _buffer_size' = bs
    /\ _next' = 1
    /\ _offset' = 0
    /\ _valid' = TRUE
    /\ accepted' = << >>
    /\ pbuf' = Flat(chain')
    /\ offset' = 0
    /\ pev' = PrintEvent("construct", 0, 0, 0, TRUE)
    /\ PrintFrame

\* The caller streams a document whose k-th byte has the value k, so that every
\* byte shows the place it was offered at: the next size bytes after those
\* accepted so far.
Document(k, size) == [i \in 1..size |-> k + i]

\* write(buffer, size), the same bytes going to both sinks.  The heap has room
\* for MaxElems elements in all: b blocks are granted during the call.
write(size, b) ==
    /\ pev.op # "init"
    /\ Len(chain) + b <= MaxElems
    /\ LET bytes == Document(Len(accepted), size)
           r == Written(chain, _next, _offset, _valid, _buffer_size, bytes, b)
           p == BufWritten(pbuf, offset, bytes)
       IN  /\ chain' = r.chain
           /\ _next' = r.next
           /\ _offset' = r.off
           /\ _valid' = r.valid
           /\ accepted' = accepted \o SubSeq(bytes, 1, r.written)
           /\ pbuf' = p.buf
           /\ offset' = p.offset
           /\ pev' = PrintEvent("write", Len(bytes), r.written, p.written, _valid)
    /\ UNCHANGED _buffer_size
    /\ PrintFrame

\* ------------------------------------------------------------ LinkedList
NodeAddrs == 1..MaxAdds
Values == 1..MaxVal
\* Predicates handed to remove_first, by the values they accept.
Predicates == SUBSET Values

\* A deleted (or never allocated) node.
DeadNode == [live |-> FALSE, value |-> 0, next |-> NullNode, id |-> 0]

RECURSIVE Iter(_, _)
\* for (it = begin(); it != end(); ++it): the nodes visited from p on.
Iter(nd, p) == IF p = NullNode THEN << >> ELSE << p >> \o Iter(nd, nd[p].next)

\* size_t length() const
length(nd, root) == Len(Iter(nd, root))

\* Values and add numbers met by an iteration from begin().
ValuesOf(nd, root) == [i \in 1..length(nd, root) |-> nd[Iter(nd, root)[i]].value]
IdsOf(nd, root) == [i \in 1..length(nd, root) |-> nd[Iter(nd, root)[i]].id]

ListState(nd, root, last) == [nodes |-> nd, root |-> root, last |-> last]

\* Variant of add that links the new node in front of the root.
AddedAtHead(nd, root, last, it, t, id) ==
    LET nd1 == [nd EXCEPT ![it] = [live |-> TRUE, value |-> t, next |-> root, id |-> id]]
    IN  ListState(nd1, it, IF root = NullNode THEN it ELSE last)
\* void add(T t), it being the node new returned.
Added(nd, root, last, it, t, id) ==
    LET nd1 == [nd EXCEPT ![it] = [live |-> TRUE, value |-> t, next |-> NullNode, id |-> id]]
    IN  IF root = NullNode
        THEN ListState(nd1, it, it)
        ELSE ListState([nd1 EXCEPT ![last].next = it], root, it)

\* Variant of _remove that leaves _last alone.
_removeKeepLast(nd, root, last, pit, it) ==
    IF pit = NullNode
    THEN ListState([nd EXCEPT ![it] = DeadNode], nd[root].next, last)
    ELSE ListState([nd EXCEPT ![pit].next = nd[it].next, ![it] = DeadNode], root, last)
\* void _remove(ItemType* pit, ItemType* it): the pointers after it, and delete it.
_remove(nd, root, last, pit, it) ==
    IF pit = NullNode
    THEN LET r == nd[root].next
         IN  ListState([nd EXCEPT ![it] = DeadNode], r,
                       IF r = NullNode THEN NullNode ELSE last)
    ELSE ListState([nd EXCEPT ![pit].next = nd[it].next, ![it] = DeadNode], root,
                   IF it = last THEN pit ELSE last)

RECURSIVE ScanFromLast(_, _, _, _)
\* Variant of the scan that goes on to the last match.
ScanFromLast(nd, pit, it, P) ==
    IF it = NullNode THEN [pit |-> pit, it |-> NullNode]
    ELSE LET rest == ScanFromLast(nd, it, nd[it].next, P)
         IN  IF rest.it # NullNode THEN rest
             ELSE IF nd[it].value \in P THEN [pit |-> pit, it |-> it]
             ELSE rest
RECURSIVE ScanFrom(_, _, _, _)
\* while(it){ if (match) ...; pit = it; it = it->next; } of remove(const T&)
\* and remove_first: the first node whose value P accepts and its predecessor.
ScanFrom(nd, pit, it, P) ==
    IF it = NullNode THEN [pit |-> pit, it |-> NullNode]
    ELSE IF nd[it].value \in P THEN [pit |-> pit, it |-> it]
    ELSE ScanFrom(nd, it, nd[it].next, P)

RECURSIVE FindFrom(_, _, _, _)
\* The scan of remove(iterator): the node t and its predecessor.
FindFrom(nd, pit, it, t) ==
    IF it = NullNode THEN [pit |-> pit, it |-> NullNode]
    ELSE IF it = t THEN [pit |-> pit, it |-> it]
    ELSE FindFrom(nd, it, nd[it].next, t)

\* if (_onRemove) _onRemove(v);
Hooked(on, h, v) == IF on THEN Append(h, v) ELSE h

\* Variant of free() that calls the hook for the first node only.
FreedHooksFirstOnly(nd, root, on) ==
    IF on /\ root # NullNode THEN << nd[root].value >> ELSE << >>
\* The hook calls of free(): one per node, from the root on.
FreedHooks(nd, root, on) == IF on THEN ValuesOf(nd, root) ELSE << >>

LinkEvent(o, p, t, w, r) == [op |-> o, P |-> p, t |-> t, where |-> w, ret |-> r]

LinkFrame == UNCHANGED << ctlVars, mem, bufVars, listVars, walkVars, printVars, sharedVars, mutexVars >>

\* No list constructed yet.
LinkInit ==
    /\ lnodes = [a \in NodeAddrs |-> DeadNode]
    /\ _root = NullNode
    /\ _last = NullNode
    /\ _onRemove = FALSE
    /\ hooked = << >>
    /\ adds = 0
    /\ removed = 0
    /\ lst = "none"
    /\ lev = LinkEvent("init", {}, NullNode, NullNode, "void")

\* LinkedList(OnRemove onRemove) : _root(nullptr), _last(nullptr), _onRemove(onRemove)
LinkedListConstruct(on) ==
    /\ lst = "none"
    /\ lnodes' = [a \in NodeAddrs |-> DeadNode]
    /\ _root' = NullNode
    /\ _last' = NullNode
    /\ _onRemove' = on
    /\ hooked' = << >>
    /\ adds' = 0
    /\ removed' = 0
    /\ lst' = "live"
    /\ lev' = LinkEvent("construct", {}, NullNode, NullNode, "void")
    /\ LinkFrame

SetList(r) ==
    /\ lnodes' = r.nodes
    /\ _root' = r.root
    /\ _last' = r.last

add(t) ==
    /\ lst = "live"
    /\ adds < MaxAdds
    /\ \E it \in NodeAddrs :
         /\ ~lnodes[it].live
         /\ \A a \in NodeAddrs : ~lnodes[a].live => it <= a
         /\ SetList(Added(lnodes, _root, _last, it, t, adds + 1))
    /\ adds' = adds + 1
    /\ hooked' = << >>
    /\ lev' = LinkEvent("add", {t}, NullNode, NullNode, "void")
    /\ UNCHANGED << _onRemove, removed, lst >>
    /\ LinkFrame

\* The end of the three removals once the scan has stopped at s.
RemoveAt(s, o, p, t, w) ==
    IF s.it # NullNode
    THEN /\ SetList(_remove(lnodes, _root, _last, s.pit, s.it))
         /\ hooked' = Hooked(_onRemove, << >>, lnodes[s.it].value)
         /\ removed' = removed + 1
         /\ lev' = LinkEvent(o, p, t, w, "true")
    ELSE /\ UNCHANGED << lnodes, _root, _last, removed >>
         /\ hooked' = << >>
         /\ lev' = LinkEvent(o, p, t, w, "false")

\* bool remove(const T& t)
remove(t) ==
    /\ lst = "live"
    /\ RemoveAt(ScanFrom(lnodes, NullNode, _root, {t}), "remove", {t}, NullNode, NullNode)
    /\ UNCHANGED << _onRemove, adds, lst >>
    /\ LinkFrame

\* bool remove_first(Predicate predicate)
remove_first(P) ==
    /\ lst = "live"
    /\ RemoveAt(ScanFrom(lnodes, NullNode, _root, P), "remove_first", P, NullNode, NullNode)
    /\ UNCHANGED << _onRemove, adds, lst >>
    /\ LinkFrame

\* bool remove(const ConstIterator& t, const ConstIterator& where): t and where
\* are nodes of the list or the end iterator.  With where the last node and t
\* the end iterator, where->next == t._node holds and _remove(where, nullptr)
\* reads it->next through a null pointer: the access faults and the program
\* stops.
removeIt(t, where) ==
    /\ lst = "live"
    /\ t \in {NullNode} \cup { a \in NodeAddrs : lnodes[a].live }
    /\ where \in {NullNode} \cup { a \in NodeAddrs : lnodes[a].live }
    /\ IF where # NullNode
       THEN IF lnodes[where].next # t
            THEN /\ UNCHANGED << lnodes, _root, _last, removed, lst >>
                 /\ hooked' = << >>
                 /\ lev' = LinkEvent("removeIt", {}, t, where, "false")
            ELSE IF t = NullNode
                 THEN /\ lst' = "crashed"
                      /\ UNCHANGED << lnodes, _root, _last, removed >>
                      /\ hooked' = << >>
                      /\ lev' = LinkEvent("removeIt", {}, t, where, "crash")
                 ELSE /\ RemoveAt([pit |-> where, it |-> t], "removeIt", {}, t, where)
                      /\ UNCHANGED lst
       ELSE /\ RemoveAt(FindFrom(lnodes, NullNode, _root, t), "removeIt", {}, t, where)
            /\ UNCHANGED lst
    /\ UNCHANGED << _onRemove, adds >>
    /\ LinkFrame

\* The body of free(): the hook is called for every node from the root on,
\* every node is deleted, _root = _last = nullptr.
Freed(o) ==
    /\ hooked' = FreedHooks(lnodes, _root, _onRemove)
    /\ lnodes' = [a \in NodeAddrs |->
                    IF \E i \in 1..length(lnodes, _root) : Iter(lnodes, _root)[i] = a
                    THEN DeadNode ELSE lnodes[a]]
    /\ _root' = NullNode
    /\ _last' = NullNode
    /\ adds' = 0
    /\ removed' = 0
    /\ lev' = LinkEvent(o, {}, NullNode, NullNode, "void")

\* void free()
LinkedListFree ==
    /\ lst = "live"
    /\ Freed("free")
    /\ UNCHANGED << _onRemove, lst >>
    /\ LinkFrame

\* ~LinkedList() { free(); }
LinkedListDestroy ==
    /\ lst = "live"
    /\ Freed("destroy")
    /\ lst' = "none"
    /\ UNCHANGED _onRemove
    /\ LinkFrame

\* ----------------------------------------------------------- SharedBuffer
Holders == 1..MaxHolders
BlockIds == 1..MaxHolders

FreeBlock == [live |-> FALSE, bytes |-> << >>]

\* The blocks some object still points to; the others are destroyed (the
\* shared_ptr's count fell to zero).
Collected(blocks, handles) ==
    [k \in BlockIds |-> IF \E h \in Holders : handles[h] = k THEN blocks[k] ELSE FreeBlock]

\* size_t size() const { return _buf ? _buf->size() : 0U; }
SharedSize(blocks, handles, h) ==
    IF handles[h] # NullBlock THEN Len(blocks[handles[h]].bytes) ELSE 0

\* char* data() const { return _buf ? _buf->data() : nullptr; }: is it null?
SharedDataNull(blocks, handles, h) ==
    IF handles[h] # NullBlock THEN blocks[handles[h]].bytes = << >> ELSE TRUE

\* explicit operator bool() const { return _buf && *_buf; }
SharedBool(blocks, handles, h) ==
    /\ handles[h] # NullBlock
    /\ blocks[handles[h]].bytes # << >>
    /\ Len(blocks[handles[h]].bytes) > 0

\* DynamicBuffer copy() const { return *_buf; }: *_buf of an empty shared_ptr
\* is a reference to address 0, and the copy constructor reads d._data and
\* d._len through it: the access faults and the program stops.  Otherwise the
\* copy constructor allocates size() bytes and copies them, or gives an empty
\* buffer when malloc refuses.
SharedCopied(blocks, handles, h, ok) ==
    IF handles[h] = NullBlock THEN [ret |-> "crash", bytes |-> << >>]
    ELSE [ret |-> "ok", bytes |-> IF ok THEN blocks[handles[h]].bytes ELSE << >>]

SharedEvent(o, h, r) == [op |-> o, h |-> h, ret |-> r]

SharedFrame == UNCHANGED << ctlVars, mem, bufVars, listVars, walkVars, printVars, linkVars, mutexVars >>

\* SharedBuffer() = default, for every object.
SharedInit ==
    /\ sblocks = [k \in BlockIds |-> FreeBlock]
    /\ shandles = [h \in Holders |-> NullBlock]
    /\ scopy = << >>
    /\ sst = "live"
    /\ sev = SharedEvent("init", 0, "ok")

\* h = SharedBuffer(buf, len): _buf(std::make_shared<DynamicBuffer>(buf, len));
\* the DynamicBuffer is empty when malloc refuses or len is 0.
SharedConstruct(h, len, ok) ==
    /\ sst = "live"
    /\ LET dropped == [shandles EXCEPT ![h] = NullBlock]
           kept == Collected(sblocks, dropped)
       IN  \E k \in BlockIds :
             /\ ~kept[k].live
             /\ \A j \in BlockIds : ~kept[j].live => k <= j
             /\ sblocks' = [kept EXCEPT ![k] =
                              [live |-> TRUE,
                               bytes |-> IF ok THEN Document(0, len) ELSE << >>]]
             /\ shandles' = [shandles EXCEPT ![h] = k]
    /\ sev' = SharedEvent("construct", h, "ok")
    /\ UNCHANGED << scopy, sst >>
    /\ SharedFrame

\* h = g: the implicit copy assignment shares g's buffer.
SharedAssign(h, g) ==
    /\ sst = "live"
    /\ h # g
    /\ shandles' = [shandles EXCEPT ![h] = shandles[g]]
    /\ sblocks' = Collected(sblocks, shandles')
    /\ sev' = SharedEvent("assign", h, "ok")
    /\ UNCHANGED << scopy, sst >>
    /\ SharedFrame

\* void clear() { _buf.reset(); }
SharedClear(h) ==
    /\ sst = "live"
    /\ shandles' = [shandles EXCEPT ![h] = NullBlock]
    /\ sblocks' = Collected(sblocks, shandles')
    /\ sev' = SharedEvent("clear", h, "ok")
    /\ UNCHANGED << scopy, sst >>
    /\ SharedFrame

\* h.copy()
SharedCopy(h, ok) ==
    /\ sst = "live"
    /\ LET r == SharedCopied(sblocks, shandles, h, ok)
       IN  /\ scopy' = r.bytes
           /\ sst' = IF r.ret = "crash" THEN "crashed" ELSE "live"
           /\ sev' = SharedEvent("copy", h, r.ret)
    /\ UNCHANGED << sblocks, shandles >>
    /\ SharedFrame

\* Nothing allocated, no DynamicBuffer constructed, no list call made.
\* ------------------------------------------------- threads of the mutex build
\* With ASYNCWEBSERVER_NEEDS_MUTEX the transport delivers its callbacks on one
\* thread and the application calls the server from another.
Threads == {"transport", "application"}
NoThread == "none"

\* The locals of a controller call: processQueue's heap_ok (and the first
\* operand read for it), active_entries, next_queued_request; _dequeue's request.
NoLocals ==
    [ requestHeapRequired |-> 0, heap_ok |-> FALSE, active_entries |-> 0,
      next_queued_request |-> NullReq, request |-> NullReq ]

\* No thread is inside the controller, nobody holds the mutex.
MutexInit ==
    /\ _mutex = NoThread
    /\ tpc = [t \in Threads |-> "idle"]
    /\ tcall = [t \in Threads |-> "idle"]
    /\ tloc = [t \in Threads |-> NoLocals]
    /\ deleted = {}
    /\ mst = "live"

MemInit ==
    /\ mem = [a \in Addrs |-> 0]
    /\ slots = [d \in BufIds |-> NoBuffer]
    /\ released = {}
    /\ bev = BufEvent("init", 0, 0, 0)
    /\ buffers = << >>
    /\ total = 0
    /\ listReq = [total |-> 0, max_buffer_size |-> 0]
    /\ lpc = "idle"
    /\ allocFailed = FALSE
    /\ WalkInit
    /\ PrintInit
    /\ LinkInit
    /\ SharedInit
    /\ MutexInit

\* ------------------------------------------------------------------- Init
NoStart == [active |-> 0, first |-> NullReq, heap_ok |-> FALSE]

Init ==
    /\ _requestQueue = << >>
    /\ _queueLimits \in LimitValues
    /\ _queueActive = FALSE
    /\ heap \in HeapValues
    /\ pc = "idle"
    /\ next_queued_request = NullReq
    /\ conn = [c \in ConnIds |-> "none"]
    /\ nextConn = 1
    /\ deferCount = 0
    /\ hookCalls = [c \in ConnIds |-> 0]
    /\ passStart = NoStart
    /\ passLog = << >>
    /\ passHeapLow = FALSE
    /\ passZeroActive = TRUE
    /\ ev = [op |-> "init", id |-> 0, res |-> "none"]
    /\ MemInit

\* Operations are entered from the transport's callbacks (no pass running)
\* or from inside a dispatched handler.
Callable == pc \in {"idle", "handler"}

Event(o, i, r) == [op |-> o, id |-> i, res |-> r]

\* ----------------------------------------------------------- processQueue
\* Variant that probes the heap once, before the loop.
LoopHeapOkHoisted(log) ==
    IF log = << >> THEN PassHeapOk(_queueLimits) ELSE passStart.heap_ok
\* auto heap_ok = ...: evaluated at the head of every iteration.
LoopHeapOk(log) == PassHeapOk(_queueLimits)

\* One iteration of the do-while over queue q, up to the handler call or the
\* break: heap probe, scan, the three breaks, _handleRequest().  Without the
\* mutex nothing else runs in between.  log, low and zero are the pass
\* history so far, by is what led to the iteration.
LoopIteration(q, log, low, zero, by) ==
    LET ok == LoopHeapOk(log)
        n == ActiveCount(q)
        nxt == FirstQueued(q)
    IN  /\ passHeapLow' = (low /\ ~PassHeapOk(_queueLimits))
        /\ IF \/ nxt = NullReq
              \/ ParallelBlocks(_queueLimits, n)
              \/ HeapBlocks(n, ok)
           THEN /\ _requestQueue' = q
                /\ pc' = "undefer"
                /\ next_queued_request' = NullReq
                /\ passLog' = log
                /\ passZeroActive' = zero
                /\ ev' = Event("break", 0, by)
           ELSE /\ _requestQueue' = _handleRequest(q, nxt)
                /\ pc' = "handler"
                /\ next_queued_request' = nxt
                /\ passLog' = Append(log, nxt)
                /\ passZeroActive' = (zero /\ n = 0)
                /\ ev' = Event("dispatch", nxt, by)

\* Entry section over queue q: if (_queueActive) return; _queueActive = true;
\* then the loop.
PassBegin(q, by) ==
    /\ _queueActive' = TRUE
    /\ passStart' = [ active |-> ActiveCount(q), first |-> FirstQueued(q),
                      heap_ok |-> PassHeapOk(_queueLimits) ]
    /\ LoopIteration(q, << >>, TRUE, TRUE, by)

\* Variant of processQueue without the _queueActive test.
processQueueNoGuard(q, by) == PassBegin(q, by)
\* processQueue, called with queue q (by names the caller).
processQueue(q, by) ==
    IF _queueActive
    THEN /\ _requestQueue' = q
         /\ ev' = Event("nested", 0, by)
         /\ UNCHANGED << _queueActive, pc, next_queued_request, passVars >>
    ELSE PassBegin(q, by)

\* A call of the public processQueue(): from the request's parser when no
\* pass runs, or from inside a dispatched handler.
ProcessQueueCall ==
    /\ Callable
    /\ processQueue(_requestQueue, "processQueue")
    /\ UNCHANGED << _queueLimits, heap, conn, nextConn, deferCount, hookCalls >>
    /\ UNCHANGED memVars

\* Variant in which the loop ends when the first dispatched handler returns.
HandlerReturnOnce ==
    /\ pc = "handler"
    /\ pc' = "undefer"
    /\ next_queued_request' = NullReq
    /\ ev' = Event("break", 0, "return")
    /\ UNCHANGED << _requestQueue, _queueLimits, _queueActive, heap, conn, nextConn,
                    deferCount, hookCalls, passVars >>
    /\ UNCHANGED memVars
\* The dispatched handler returns: while(1) loops.
HandlerReturn ==
    /\ pc = "handler"
    /\ LoopIteration(_requestQueue, passLog, passHeapLow, passZeroActive, "return")
    /\ UNCHANGED << _queueLimits, _queueActive, heap, conn, nextConn, deferCount,
                    hookCalls, passStart >>
    /\ UNCHANGED memVars

\* The dispatched handler defers its request (tag DEFERRED).
HandlerDefer ==
    /\ pc = "handler"
    /\ deferCount < MaxDefer
    /\ next_queued_request \in Ids(_requestQueue)
    /\ StateOf(_requestQueue, next_queued_request) = ACTIVE
    /\ _requestQueue' = SetState(_requestQueue, next_queued_request, DEFERRED)
    /\ deferCount' = deferCount + 1
    /\ ev' = Event("defer", next_queued_request, "none")
    /\ UNCHANGED << _queueLimits, _queueActive, heap, pc, next_queued_request, conn,
                    nextConn, hookCalls, passVars >>
    /\ UNCHANGED memVars

\* Variant of the un-defer loop that starts at the node after _root.
UndeferSkipRoot(q) ==
    [ i \in 1..Len(q) |->
        IF i > 1 /\ q[i]._parseState = DEFERRED
        THEN [q[i] EXCEPT !._parseState = QUEUED] ELSE q[i] ]
\* After the loop: un-defer requests; _queueActive = false.
Undefer(q) ==
    [ i \in 1..Len(q) |->
        IF q[i]._parseState = DEFERRED THEN [q[i] EXCEPT !._parseState = QUEUED] ELSE q[i] ]

\* Variant of the final section that leaves _queueActive set.
PassEndKeepGuard ==
    /\ pc = "undefer"
    /\ _requestQueue' = Undefer(_requestQueue)
    /\ pc' = "idle"
    /\ passStart' = NoStart
    /\ passLog' = << >>
    /\ passHeapLow' = FALSE
    /\ passZeroActive' = TRUE
    /\ ev' = Event("passend", 0, "none")
    /\ UNCHANGED << _queueLimits, _queueActive, heap, next_queued_request, conn, nextConn,
                    deferCount, hookCalls >>
    /\ UNCHANGED memVars
PassEnd ==
    /\ pc = "undefer"
    /\ _requestQueue' = Undefer(_requestQueue)
    /\ _queueActive' = FALSE
    /\ pc' = "idle"
    /\ passStart' = NoStart
    /\ passLog' = << >>
    /\ passHeapLow' = FALSE
    /\ passZeroActive' = TRUE
    /\ ev' = Event("passend", 0,
                   IF \E i \in 1..Len(_requestQueue) : _requestQueue[i]._parseState = DEFERRED
                   THEN "undeferred" ELSE "none")
    /\ UNCHANGED << _queueLimits, heap, next_queued_request, conn, nextConn,
                    deferCount, hookCalls >>
    /\ UNCHANGED memVars

\* ---------------------------------------------------------------- _dequeue
\* Variant of _dequeue that removes without calling processQueue.
_dequeueNoPass(r) ==
    /\ _requestQueue' = ListRemove(_requestQueue, r)
    /\ hookCalls' = HookAfterRemove(hookCalls, _requestQueue, r)
    /\ ev' = Event("nested", 0, "_dequeue")
    /\ UNCHANGED << _queueActive, pc, next_queued_request, passVars >>
\* _requestQueue.remove(request); processQueue();
_dequeue(r) ==
    /\ hookCalls' = HookAfterRemove(hookCalls, _requestQueue, r)
    /\ processQueue(ListRemove(_requestQueue, r), "_dequeue")

\* A request is destroyed (completion or disconnect) and dequeues itself.
Dequeue(r) ==
    /\ Callable
    /\ r \in Ids(_requestQueue)
    /\ _dequeue(r)
    /\ conn' = [conn EXCEPT ![r] = "closed"]
    /\ UNCHANGED << _queueLimits, heap, nextConn, deferCount >>
    /\ UNCHANGED memVars

\* ----------------------------------------------------------- setQueueLimits
\* Variant of setQueueLimits that also runs a scheduling pass.
SetQueueLimitsAndPass(l) ==
    /\ Callable
    /\ l # _queueLimits
    /\ _queueLimits' = l
    /\ IF _queueActive
       THEN /\ passHeapLow' = (passHeapLow /\ ~(heap.free >= HeapThreshold(l)))
            /\ ev' = Event("setQueueLimits", 0, "none")
            /\ UNCHANGED << _requestQueue, _queueActive, pc, next_queued_request,
                            passStart, passLog, passZeroActive >>
       ELSE /\ _queueActive' = TRUE
            /\ pc' = "undefer"
            /\ ev' = Event("setQueueLimits", 0, "none")
            /\ UNCHANGED << _requestQueue, next_queued_request, passVars >>
    /\ UNCHANGED << heap, conn, nextConn, deferCount, hookCalls >>
    /\ UNCHANGED memVars
\* guard(); _queueLimits = limits;
SetQueueLimits(l) ==
    /\ Callable
    /\ l # _queueLimits
    /\ _queueLimits' = l
    /\ passHeapLow' = (passHeapLow /\ ~(heap.free >= HeapThreshold(l)))
    /\ ev' = Event("setQueueLimits", 0, "none")
    /\ UNCHANGED << _requestQueue, _queueActive, heap, pc, next_queued_request, conn,
                    nextConn, deferCount, hookCalls, passStart, passLog, passZeroActive >>
    /\ UNCHANGED memVars

\* The heap probes report a new value (allocations elsewhere).
HeapChange(h) ==
    /\ Callable
    /\ h # heap
    /\ heap' = h
    /\ passHeapLow' = (passHeapLow /\ ~(h.free >= HeapThreshold(_queueLimits)))
    /\ ev' = Event("heap", 0, "none")
    /\ UNCHANGED << _requestQueue, _queueLimits, _queueActive, pc, next_queued_request,
                    conn, nextConn, deferCount, hookCalls, passStart, passLog,
                    passZeroActive >>
    /\ UNCHANGED memVars

\* ------------------------------------------------- connection-accept callback
\* Variant of the limits test that admits one entry past nMax.
AdmissionRejectsOffByOne(l, len) ==
    \/ (l.queueHeapRequired > 0) /\ ~heap_ok(l.queueHeapRequired)
    \/ (l.nMax > 0) /\ (len > l.nMax)
\* The limits test of the callback: queue heap reservation unmet, or queue full.
AdmissionRejects(l, len) ==
    \/ (l.queueHeapRequired > 0) /\ ~heap_ok(l.queueHeapRequired)
    \/ (l.nMax > 0) /\ (len >= l.nMax)

\* _server.onClient(...): c is the accepted client, allocOk whether
\* new AsyncWebServerRequest returned an object.
onClient(c, allocOk) ==
    IF ~heap_ok(ASYNCWEBSERVER_MINIMUM_HEAP)
    THEN \* c->close(true); delete c;
         /\ conn' = [conn EXCEPT ![c] = "closed"]
         /\ ev' = Event("accept", c, "dropped")
         /\ UNCHANGED _requestQueue
    ELSE IF AdmissionRejects(_queueLimits, ListLength(_requestQueue))
    THEN \* onDisconnect / onAck / onData are installed; nothing is sent yet
         /\ conn' = [conn EXCEPT ![c] = "rejected"]
         /\ ev' = Event("accept", c, "rejected")
         /\ UNCHANGED _requestQueue
    ELSE IF ~allocOk
    THEN \* r == NULL: c->close(true); c->free(); delete c;
         /\ conn' = [conn EXCEPT ![c] = "closed"]
         /\ ev' = Event("accept", c, "allocfail")
         /\ UNCHANGED _requestQueue
    ELSE /\ _requestQueue' = ListAdd(_requestQueue, [id |-> c, _parseState |-> NewRequestState])
         /\ conn' = [conn EXCEPT ![c] = "queued"]
         /\ ev' = Event("accept", c, "queued")

\* The transport delivers the next connection (never while a callback runs).
Accept ==
    /\ pc = "idle"
    /\ nextConn <= MaxConn
    /\ \E allocOk \in BOOLEAN : onClient(nextConn, allocOk)
    /\ nextConn' = nextConn + 1
    /\ UNCHANGED << _queueLimits, _queueActive, heap, pc, next_queued_request, deferCount,
                    hookCalls, passVars >>
    /\ UNCHANGED memVars

\* Variant of minimal_send_503 that does not close after a failed write.
minimal_send_503NoClose(c, w) ==
    /\ conn' = [conn EXCEPT ![c] = IF w = 0 THEN "rejected" ELSE "sent503"]
    /\ ev' = Event("send503", c, IF w = 0 THEN "failed" ELSE "written")
\* minimal_send_503: w is what c->write returned; w == 0 closes forcibly.
minimal_send_503(c, w) ==
    /\ conn' = [conn EXCEPT ![c] = IF w = 0 THEN "closed" ELSE "sent503"]
    /\ ev' = Event("send503", c, IF w = 0 THEN "failed" ELSE "written")

\* onData of a rejected client: rc->onData({}); minimal_send_503(rc);
RejectedData(c) ==
    /\ pc = "idle"
    /\ conn[c] = "rejected"
    /\ \E w \in {0, Msg503Len} : minimal_send_503(c, w)
    /\ UNCHANGED << _requestQueue, _queueLimits, _queueActive, heap, pc, next_queued_request,
                    nextConn, deferCount, hookCalls, passVars >>
    /\ UNCHANGED memVars

\* onAck of a rejected client: rc->close(true);
RejectedAck(c) ==
    /\ pc = "idle"
    /\ conn[c] = "sent503"
    /\ conn' = [conn EXCEPT ![c] = "closed"]
    /\ ev' = Event("ack", c, "closed")
    /\ UNCHANGED << _requestQueue, _queueLimits, _queueActive, heap, pc, next_queued_request,
                    nextConn, deferCount, hookCalls, passVars >>
    /\ UNCHANGED memVars

\* onDisconnect of a rejected client (the peer went away): delete rc;
RejectedDisconnect(c) ==
    /\ pc = "idle"
    /\ conn[c] \in {"rejected", "sent503"}
    /\ conn' = [conn EXCEPT ![c] = "closed"]
    /\ ev' = Event("disconnect", c, "closed")
    /\ UNCHANGED << _requestQueue, _queueLimits, _queueActive, heap, pc, next_queued_request,
                    nextConn, deferCount, hookCalls, passVars >>
    /\ UNCHANGED memVars

\* ------------------------------------------------------------ specification
Next ==
    \/ Accept
    \/ ProcessQueueCall
    \/ HandlerReturn
    \/ HandlerDefer
    \/ PassEnd
    \/ \E r \in ConnIds : Dequeue(r)
    \/ \E l \in LimitValues : SetQueueLimits(l)
    \/ \E h \in HeapValues : HeapChange(h)
    \/ \E c \in ConnIds : RejectedData(c)
    \/ \E c \in ConnIds : RejectedAck(c)
    \/ \E c \in ConnIds : RejectedDisconnect(c)

Spec == Init /\ [][Next]_vars

\* The accept callback and the callbacks it installs on a rejected client,
\* with the transport delivering what a peer and its TCP stack produce: the
\* request bytes of a connected peer, and the acknowledgement of bytes the
\* server wrote (a peer that goes away instead is reported as a disconnect).
RejectNext ==
    \/ Accept
    \/ \E l \in LimitValues : SetQueueLimits(l)
    \/ \E h \in HeapValues : HeapChange(h)
    \/ \E c \in ConnIds : RejectedData(c)
    \/ \E c \in ConnIds : RejectedAck(c)
    \/ \E c \in ConnIds : RejectedDisconnect(c)

\* The quiet controller the buffer operations run beside.
ZeroLimits ==
    [nMax |-> 0, nParallel |-> 0, requestHeapRequired |-> 0, queueHeapRequired |-> 0]

BufInit ==
    /\ Init
    /\ _queueLimits = ZeroLimits
    /\ heap = [free |-> 6000, block |-> 4000]

\* The operations of DynamicBuffer on the objects of BufIds.
BufNext ==
    \/ \E d \in BufIds : DefaultConstruct(d)
    \/ \E d \in BufIds, len \in Lens, ok \in BOOLEAN : Construct(d, len, ok)
    \/ \E d \in BufIds, len \in Lens, ok \in BOOLEAN : ConstructBytes(d, len, ok)
    \/ \E d \in BufIds, sr \in BufIds, ok \in BOOLEAN : CopyConstruct(d, sr, ok)
    \/ \E d \in BufIds, sr \in BufIds, ok \in BOOLEAN : CopyAssign(d, sr, ok)
    \/ \E d \in BufIds, sr \in BufIds : MoveConstruct(d, sr)
    \/ \E d \in BufIds, sr \in BufIds : MoveAssign(d, sr)
    \/ \E d \in BufIds : Release(d)
    \/ \E d \in BufIds : Clear(d)
    \/ \E d \in BufIds : Destroy(d)
    \/ \E d \in BufIds, heapBuf \in BOOLEAN, len \in Lens, ok \in BOOLEAN :
          ConstructFromString(d, heapBuf, len, ok)
    \/ \E p \in Addrs : CallerFree(p)

BufSpec == BufInit /\ [][BufNext]_vars

\* Calls of allocateList, one at a time.
ListNext ==
    \/ \E t \in 0..MaxTotal, mx \in 0..MaxChunk : AllocateListCall(t, mx)
    \/ \E ok \in BOOLEAN : AllocateListLoop(ok)
    \/ AllocateListReturn
    \/ ListDestroy

ListSpec == BufInit /\ [][ListNext]_vars

\* The operations of Walkable on one object.
WalkNext ==
    \/ \E bytes \in ByteSeqsUpTo(MaxCap), ok \in BOOLEAN : WalkConstruct(bytes, ok)
    \/ \E count \in Deltas : advance(count)
    \/ \E count \in Deltas : radvance(count)
    \/ \E s \in 0..(MaxCap + 1) : resize(s)
    \/ reset
    \/ \E s \in 0..MaxCap, ok \in BOOLEAN, g \in FillValues : reallocate(s, ok, g)

WalkSpec == BufInit /\ [][WalkNext]_vars

\* One BufferListPrint and one BufferPrint, constructed once and written to.
PrintNext ==
    \/ \E sizes \in SizeSeqs, bs \in 0..MaxElemSize : PrintConstruct(sizes, bs)
    \/ \E size \in 0..MaxWrite, b \in 0..MaxWrite : write(size, b)

PrintSpec == BufInit /\ [][PrintNext]_vars

\* The operations of one LinkedList.
LinkNext ==
    \/ \E on \in BOOLEAN : LinkedListConstruct(on)
    \/ \E t \in Values : add(t)
    \/ \E t \in Values : remove(t)
    \/ \E P \in Predicates : remove_first(P)
    \/ \E t \in {NullNode} \cup NodeAddrs, where \in {NullNode} \cup NodeAddrs : removeIt(t, where)
    \/ LinkedListFree
    \/ LinkedListDestroy

LinkSpec == BufInit /\ [][LinkNext]_vars

\* A dispatched handler returns, and the statements after the loop run: the
\* calls are synchronous.
PassFairness == WF_vars(HandlerReturn) /\ WF_vars(PassEnd)

\* The controller with its limits as constructed: requests arrive, are
\* dispatched, defer, complete or disconnect while the heap varies.
PassNext ==
    \/ Accept
    \/ ProcessQueueCall
    \/ HandlerReturn
    \/ HandlerDefer
    \/ PassEnd
    \/ \E r \in ConnIds : Dequeue(r)
    \/ \E h \in HeapValues : HeapChange(h)

PassSpec == Init /\ [][PassNext]_vars /\ PassFairness

\* ------------------------------------------------ the mutex-guarded build
\* The controller with ASYNCWEBSERVER_NEEDS_MUTEX: guard() is a
\* std::lock_guard on _mutex, taken at the guard() line and released at the
\* end of the enclosing block.  Every thread steps through the controller's
\* code; what is read or written outside a guarded block is a step of its own.
MutexFrame ==
    UNCHANGED << heap, pc, next_queued_request, deferCount, passVars, mem, bufVars,
                 listVars, walkVars, printVars, linkVars, sharedVars >>
\* ev records the outcome of the accept callback only.
QuietFrame == MutexFrame /\ UNCHANGED ev

\* Positions at a guard() line, and inside the block it guards.
GuardLines == {"pq_entry", "scan", "exit", "dq", "set", "read", "acc"}
Guarded(p) == p \o "L"

At(t, p) == mst = "live" /\ tpc[t] = p

Goto(t, p) == tpc' = [tpc EXCEPT ![t] = p]

\* The call returns to where it was made: the thread's idle loop or the
\* handler that made it.
Return(t) ==
    /\ tpc' = [tpc EXCEPT ![t] = tcall[t]]
    /\ tcall' = [tcall EXCEPT ![t] = "idle"]

\* The call of a controller function from the thread's idle loop or from
\* inside the handler the thread is running.
Enter(t, p) ==
    /\ mst = "live"
    /\ tpc[t] \in {"idle", "handler"}
    /\ tcall' = [tcall EXCEPT ![t] = tpc[t]]
    /\ Goto(t, p)

\* Variant of the end of the scan block that leaves the mutex locked.
UnlockKeepAfterScan(t) ==
    _mutex' = IF tpc[t] = "scanL" THEN _mutex ELSE NoThread
\* The end of a guarded block: ~lock_guard unlocks.
Unlock(t) == _mutex' = NoThread

\* guard(): std::lock_guard<std::mutex> guard(_mutex) blocks until the mutex
\* is free (a thread that already holds it waits for ever).
MxAcquire(t) ==
    /\ mst = "live"
    /\ tpc[t] \in GuardLines
    /\ _mutex = NoThread
    /\ _mutex' = t
    /\ Goto(t, Guarded(tpc[t]))
    /\ UNCHANGED << _requestQueue, _queueLimits, _queueActive, conn, nextConn, hookCalls,
                    tcall, tloc, deleted, mst >>
    /\ QuietFrame

\* processQueue() is called.
MxProcessQueueCall(t) ==
    /\ Enter(t, "pq_entry")
    /\ UNCHANGED << _requestQueue, _queueLimits, _queueActive, conn, nextConn, hookCalls,
                    _mutex, tloc, deleted, mst >>
    /\ QuietFrame

\* { guard(); if (_queueActive) return; _queueActive = true; }
MxEntry(t) ==
    /\ At(t, "pq_entryL")
    /\ Unlock(t)
    /\ IF _queueActive
       THEN /\ Return(t)
            /\ UNCHANGED _queueActive
       ELSE /\ _queueActive' = TRUE
            /\ Goto(t, "probe")
            /\ UNCHANGED tcall
    /\ UNCHANGED << _requestQueue, _queueLimits, conn, nextConn, hookCalls, tloc, deleted, mst >>
    /\ QuietFrame

\* Head of the do-while: the first operand of the heap_ok expression is read
\* from _queueLimits (no guard), the other locals are initialised.
MxProbeRequest(t) ==
    /\ At(t, "probe")
    /\ tloc' = [tloc EXCEPT ![t] =
                  [NoLocals EXCEPT !.requestHeapRequired = _queueLimits.requestHeapRequired]]
    /\ Goto(t, "probe2")
    /\ UNCHANGED << _requestQueue, _queueLimits, _queueActive, conn, nextConn, hookCalls,
                    _mutex, tcall, deleted, mst >>
    /\ QuietFrame

\* auto heap_ok = ESP.getFreeHeap() >= (... + _queueLimits.queueHeapRequired);
MxProbeHeap(t) ==
    /\ At(t, "probe2")
    /\ tloc' = [tloc EXCEPT ![t].heap_ok =
                  heap.free >= tloc[t].requestHeapRequired + _queueLimits.queueHeapRequired]
    /\ Goto(t, "scan")
    /\ UNCHANGED << _requestQueue, _queueLimits, _queueActive, conn, nextConn, hookCalls,
                    _mutex, tcall, deleted, mst >>
    /\ QuietFrame

\* { guard(); for (auto entry: _requestQueue) ... }: count the ACTIVE entries
\* and take the first QUEUED one, under the lock.
MxScan(t) ==
    /\ At(t, "scanL")
    /\ Unlock(t)
    /\ tloc' = [tloc EXCEPT ![t].active_entries = ActiveCount(_requestQueue),
                            ![t].next_queued_request = FirstQueued(_requestQueue)]
    /\ Goto(t, "test")
    /\ UNCHANGED << _requestQueue, _queueLimits, _queueActive, conn, nextConn, hookCalls,
                    tcall, deleted, mst >>
    /\ QuietFrame

\* if ((active_entries > 0) && (!heap_ok)) break; on the locals of thread t.
AfterParallelTest(t) ==
    IF HeapBlocks(tloc[t].active_entries, tloc[t].heap_ok) THEN "exit" ELSE "invoke"

\* if (!next_queued_request) break; then the first operand of the parallel
\* test, _queueLimits.nParallel > 0, read without the guard.
MxTestNext(t) ==
    /\ At(t, "test")
    /\ Goto(t, IF tloc[t].next_queued_request = NullReq THEN "exit"
               ELSE IF _queueLimits.nParallel > 0 THEN "test2"
               ELSE AfterParallelTest(t))
    /\ UNCHANGED << _requestQueue, _queueLimits, _queueActive, conn, nextConn, hookCalls,
                    _mutex, tcall, tloc, deleted, mst >>
    /\ QuietFrame

\* ... && (active_entries >= _queueLimits.nParallel)) break; then the heap test.
MxTestParallel(t) ==
    /\ At(t, "test2")
    /\ Goto(t, IF tloc[t].active_entries >= _queueLimits.nParallel THEN "exit"
               ELSE AfterParallelTest(t))
    /\ UNCHANGED << _requestQueue, _queueLimits, _queueActive, conn, nextConn, hookCalls,
                    _mutex, tcall, tloc, deleted, mst >>
    /\ QuietFrame

\* next_queued_request->_handleRequest(); a call through a pointer to a
\* request whose destructor has started is undefined: the program stops, or
\* the handler runs on the dead object.
MxInvoke(t) ==
    /\ At(t, "invoke")
    /\ LET r == tloc[t].next_queued_request
       IN  IF r \in deleted
           THEN \E crash \in BOOLEAN :
                   /\ mst' = IF crash THEN "crashed" ELSE "live"
                   /\ Goto(t, IF crash THEN "invoke" ELSE "handler")
                   /\ UNCHANGED _requestQueue
           ELSE /\ _requestQueue' = _handleRequest(_requestQueue, r)
                /\ Goto(t, "handler")
                /\ UNCHANGED mst
    /\ UNCHANGED << _queueLimits, _queueActive, conn, nextConn, hookCalls, _mutex, tcall,
                    tloc, deleted >>
    /\ QuietFrame

\* The dispatched handler returns: while(1) loops.
MxHandlerReturn(t) ==
    /\ At(t, "handler")
    /\ Goto(t, "probe")
    /\ UNCHANGED << _requestQueue, _queueLimits, _queueActive, conn, nextConn, hookCalls,
                    _mutex, tcall, tloc, deleted, mst >>
    /\ QuietFrame

\* { guard(); un-defer; _queueActive = false; } and processQueue returns.
MxExit(t) ==
    /\ At(t, "exitL")
    /\ Unlock(t)
    /\ _requestQueue' = Undefer(_requestQueue)
    /\ _queueActive' = FALSE
    /\ Return(t)
    /\ tloc' = [tloc EXCEPT ![t] = NoLocals]
    /\ UNCHANGED << _queueLimits, conn, nextConn, hookCalls, deleted, mst >>
    /\ QuietFrame

\* A request is destroyed (completion or disconnect, on whichever thread
\* deletes it): its destructor calls _dequeue(this).
MxDequeueCall(t, r) ==
    /\ Enter(t, "dq")
    /\ r \in Ids(_requestQueue) \ deleted
    /\ deleted' = deleted \cup {r}
    /\ tloc' = [tloc EXCEPT ![t].request = r]
    /\ UNCHANGED << _requestQueue, _queueLimits, _queueActive, conn, nextConn, hookCalls,
                    _mutex, mst >>
    /\ QuietFrame

\* { guard(); _requestQueue.remove(request); } processQueue();
MxRemove(t) ==
    /\ At(t, "dqL")
    /\ Unlock(t)
    /\ _requestQueue' = ListRemove(_requestQueue, tloc[t].request)
    /\ hookCalls' = HookAfterRemove(hookCalls, _requestQueue, tloc[t].request)
    /\ conn' = [conn EXCEPT ![tloc[t].request] = "closed"]
    /\ tloc' = [tloc EXCEPT ![t].request = NullReq]
    /\ Goto(t, "pq_entry")
    /\ UNCHANGED << _queueLimits, _queueActive, nextConn, tcall, deleted, mst >>
    /\ QuietFrame

\* setQueueLimits(limits) is called.
MxSetQueueLimitsCall(t) ==
    /\ Enter(t, "set")
    /\ UNCHANGED << _requestQueue, _queueLimits, _queueActive, conn, nextConn, hookCalls,
                    _mutex, tloc, deleted, mst >>
    /\ QuietFrame

\* guard(); _queueLimits = limits;
MxSetLimits(t, l) ==
    /\ At(t, "setL")
    /\ Unlock(t)
    /\ _queueLimits' = l
    /\ Return(t)
    /\ UNCHANGED << _requestQueue, _queueActive, conn, nextConn, hookCalls, tloc, deleted, mst >>
    /\ QuietFrame

\* numClients() or queueLength() is called.
MxAccessorCall(t) ==
    /\ Enter(t, "read")
    /\ UNCHANGED << _requestQueue, _queueLimits, _queueActive, conn, nextConn, hookCalls,
                    _mutex, tloc, deleted, mst >>
    /\ QuietFrame

\* guard(); return _requestQueue.length(); (queueLength: the count of tags >= 200)
MxAccessor(t) ==
    /\ At(t, "readL")
    /\ Unlock(t)
    /\ Return(t)
    /\ UNCHANGED << _requestQueue, _queueLimits, _queueActive, conn, nextConn, hookCalls,
                    tloc, deleted, mst >>
    /\ QuietFrame

\* The transport delivers the next connection to the onClient callback: the
\* safety-floor test comes before guard().
MxAccept ==
    /\ At("transport", "idle")
    /\ nextConn <= MaxReq
    /\ IF ~heap_ok(ASYNCWEBSERVER_MINIMUM_HEAP)
       THEN /\ onClient(nextConn, TRUE)
            /\ nextConn' = nextConn + 1
            /\ UNCHANGED tpc
       ELSE /\ Goto("transport", "acc")
            /\ UNCHANGED << _requestQueue, conn, nextConn, ev >>
    /\ UNCHANGED << _queueLimits, _queueActive, hookCalls, _mutex, tcall, tloc, deleted, mst >>
    /\ MutexFrame

\* The rest of the callback, under the guard to its end: reject, or allocate
\* the request and _requestQueue.add(r).  The request, once parsed, triggers
\* a scheduling pass from the same thread.
MxAdmit(allocOk) ==
    /\ At("transport", "accL")
    /\ Unlock("transport")
    /\ onClient(nextConn, allocOk)
    /\ nextConn' = nextConn + 1
    /\ Goto("transport", IF allocOk /\ ~AdmissionRejects(_queueLimits, ListLength(_requestQueue))
                         THEN "pq_entry" ELSE "idle")
    /\ UNCHANGED << _queueLimits, _queueActive, hookCalls, tcall, tloc, deleted, mst >>
    /\ MutexFrame

MutexNext ==
    \/ \E t \in Threads : MxAcquire(t)
    \/ \E t \in Threads : MxProcessQueueCall(t)
    \/ \E t \in Threads : MxEntry(t)
    \/ \E t \in Threads : MxProbeRequest(t)
    \/ \E t \in Threads : MxProbeHeap(t)
    \/ \E t \in Threads : MxScan(t)
    \/ \E t \in Threads : MxTestNext(t)
    \/ \E t \in Threads : MxTestParallel(t)
    \/ \E t \in Threads : MxInvoke(t)
    \/ \E t \in Threads : MxHandlerReturn(t)
    \/ \E t \in Threads : MxExit(t)
    \/ \E t \in Threads, r \in ConnIds : MxDequeueCall(t, r)
    \/ \E t \in Threads : MxRemove(t)
    \/ \E t \in Threads : MxSetQueueLimitsCall(t)
    \/ \E t \in Threads, l \in LimitValues : MxSetLimits(t, l)
    \/ \E t \in Threads : MxAccessorCall(t)
    \/ \E t \in Threads : MxAccessor(t)
    \/ MxAccept
    \/ \E allocOk \in BOOLEAN : MxAdmit(allocOk)

\* The mutex build starts with an empty queue; the heap probes report one
\* value throughout.
MutexStart ==
    /\ Init
    /\ heap = [free |-> 3500, block |-> 3000]

MutexSpec == MutexStart /\ [][MutexNext]_vars

\* The operations on the SharedBuffer objects.
SharedNext ==
    \/ \E h \in Holders, len \in 0..MaxCap, ok \in BOOLEAN : SharedConstruct(h, len, ok)
    \/ \E h \in Holders, g \in Holders : SharedAssign(h, g)
    \/ \E h \in Holders : SharedClear(h)
    \/ \E h \in Holders, ok \in BOOLEAN : SharedCopy(h, ok)

SharedSpec == BufInit /\ [][SharedNext]_vars

RejectFairness ==
    \A c \in ConnIds : WF_vars(RejectedData(c)) /\ WF_vars(RejectedAck(c))

RejectSpec == Init /\ [][RejectNext]_vars /\ RejectFairness

\* ================================================================= claims
\* Number of entries of q tagged QUEUED.
QueuedCount(q) == Cardinality({ i \in 1..Len(q) : q[i]._parseState = QUEUED })

\* Positions ahead of request r in queue q.
Ahead(q, r) == 1..(IndexOf(q, r) - 1)

C2_ForwardProgress ==
    ( /\ pc = "undefer"
      /\ passStart.active = 0
      /\ passStart.first # NullReq
      /\ passHeapLow )
    => /\ Len(passLog) >= 1
       /\ passLog[1] = passStart.first
       /\ passZeroActive
       /\ ( ( /\ passLog[1] \in Ids(_requestQueue)
              /\ StateOf(_requestQueue, passLog[1]) = ACTIVE )
            => Len(passLog) = 1 )

\* C2 witness: such a pass ended after dispatching exactly one entry, another
\* entry still QUEUED behind it.
C2_Witness ==
      ( /\ pc = "undefer"
        /\ passStart.active = 0
        /\ passStart.first # NullReq
        /\ passHeapLow
        /\ Len(passLog) = 1
        /\ QueuedCount(_requestQueue) >= 1
        /\ ActiveCount(_requestQueue) = 1 )

\* C2 as stated: such a pass dispatches exactly one request, the first QUEUED.
C2_Original ==
    ( /\ pc = "undefer"
      /\ passStart.active = 0
      /\ passStart.first # NullReq
      /\ passHeapLow )
    => /\ Len(passLog) = 1
       /\ passLog[1] = passStart.first

\* C3: with nParallel = N > 0 no entry is dispatched while N or more entries
\* are ACTIVE, and under an unchanged limit the ACTIVE count stays <= N.
C3_ParallelLimit ==
    [][ /\ ( (ev'.op = "dispatch" /\ _queueLimits.nParallel > 0)
             => ActiveCount(_requestQueue') <= _queueLimits.nParallel )
        /\ ( ( /\ _queueLimits'.nParallel = _queueLimits.nParallel
               /\ _queueLimits.nParallel > 0
               /\ ActiveCount(_requestQueue) <= _queueLimits.nParallel )
             => ActiveCount(_requestQueue') <= _queueLimits.nParallel ) ]_vars

\* C3 witness: a pass stopped at the parallel limit: a QUEUED entry waits,
\* nParallel entries are ACTIVE and the heap is above the threshold.
C3_Witness ==
      ( /\ pc = "undefer"
        /\ ev.op = "break"
        /\ _queueLimits.nParallel = 2
        /\ ActiveCount(_requestQueue) = 2
        /\ QueuedCount(_requestQueue) >= 1
        /\ heap.free >= HeapThreshold(_queueLimits) )

\* C4: no entry is dispatched while another entry is ACTIVE and the free
\* heap, as it is at that dispatch, is below requestHeapRequired +
\* queueHeapRequired.
C4_HeapGate ==
    [][ ev'.op = "dispatch" =>
          \/ ActiveCount(_requestQueue') = 1
          \/ heap'.free >= _queueLimits'.requestHeapRequired
                           + _queueLimits'.queueHeapRequired ]_vars

\* C4 witness: a pass that started with the heap above the threshold and
\* dispatched, then stopped because the heap had dropped by the next check.
C4_Witness ==
      ( /\ pc = "undefer"
        /\ ev.op = "break"
        /\ passStart.heap_ok
        /\ Len(passLog) >= 1
        /\ ActiveCount(_requestQueue) >= 1
        /\ QueuedCount(_requestQueue) >= 1
        /\ ~ParallelBlocks(_queueLimits, ActiveCount(_requestQueue))
        /\ heap.free < HeapThreshold(_queueLimits) )

\* The entries of q other than request r, in order.
Without(q, r) == SelectSeq(q, LAMBDA e : e.id # r)

\* The step destroys request r: the request leaves the live connections.
DequeueStep(r) == conn[r] = "queued" /\ conn'[r] = "closed"

\* C5: a call of processQueue made while _queueActive is set (directly, or
\* through _dequeue) returns at once: it dispatches nothing, changes no
\* entry's tag, leaves the guard set and the running pass where it was.
C5_ReentrancyGuard ==
    [][ (_queueActive /\ ev'.res \in {"processQueue", "_dequeue"}) =>
          /\ ev'.op = "nested"
          /\ _queueActive'
          /\ pc' = pc
          /\ passLog' = passLog
          /\ next_queued_request' = next_queued_request
          /\ \A i \in 1..Len(_requestQueue') :
                \E j \in 1..Len(_requestQueue) : _requestQueue[j] = _requestQueue'[i]
          /\ (ev'.res = "processQueue" => _requestQueue' = _requestQueue) ]_vars

\* C5 witness: inside a dispatched handler, with another entry QUEUED, a
\* _dequeue made its nested processQueue call and the handler still runs.
C5_Witness ==
    /\ ev = Event("nested", 0, "_dequeue")
    /\ pc = "handler"
    /\ _queueActive
    /\ QueuedCount(_requestQueue) >= 1
    /\ ActiveCount(_requestQueue) = 0

\* The step delivers a connection to the accept callback.
AcceptStep == nextConn' = nextConn + 1

\* C6: with nMax > 0 and nMax entries in the queue an accept adds no entry;
\* under an unchanged nMax > 0 the queue length never grows past nMax.
C6_AdmissionRejection ==
    [][ /\ ( ( /\ AcceptStep
               /\ _queueLimits.nMax > 0
               /\ Len(_requestQueue) >= _queueLimits.nMax )
             => /\ _requestQueue' = _requestQueue
                /\ conn'[nextConn] # "queued" )
        /\ ( ( /\ _queueLimits'.nMax = _queueLimits.nMax
               /\ _queueLimits.nMax > 0
               /\ Len(_requestQueue) <= _queueLimits.nMax )
             => Len(_requestQueue') <= _queueLimits.nMax ) ]_vars

\* C6 witness: nMax = 2, two entries queued, the heap healthy, and the third
\* connection was rejected by the limits test.
C6_Witness ==
    /\ ev = Event("accept", 3, "rejected")
    /\ _queueLimits.nMax = 2
    /\ Len(_requestQueue) = 2
    /\ heap_ok(_queueLimits.queueHeapRequired)
    /\ conn[3] = "rejected"

\* The heap is below the absolute safety floor.
CriticalHeap ==
    \/ heap.free <= ASYNCWEBSERVER_MINIMUM_HEAP
    \/ heap.block <= ASYNCWEBSERVER_MINIMUM_ALLOC

\* C7 (as amended): a connection accepted while the heap is critically low
\* gets no request object and no queue entry and is closed forcibly at once,
\* with nothing written to it; the minimal 503 is only ever written to a
\* connection the limits test rejected.
C7_CriticalDrop ==
    [][ /\ ( (AcceptStep /\ CriticalHeap)
             => /\ _requestQueue' = _requestQueue
                /\ conn'[nextConn] = "closed"
                /\ ev' = Event("accept", nextConn, "dropped") )
        /\ ( ev'.op = "send503" => conn[ev'.id] = "rejected" ) ]_vars

\* C7 witness: a connection was dropped at the safety floor although the
\* limits would have admitted it.
C7_Witness ==
    /\ ev.op = "accept"
    /\ ev.res = "dropped"
    /\ CriticalHeap
    /\ conn[ev.id] = "closed"
    /\ ~AdmissionRejects(_queueLimits, Len(_requestQueue))

\* C7 as stated: such a connection is sent the minimal 503 and only then
\* closed, so the accept does not leave it closed.
C7_Original ==
    [][ (AcceptStep /\ CriticalHeap)
          => /\ _requestQueue' = _requestQueue
             /\ conn'[nextConn] # "closed" ]_vars

\* The limits test of the accept callback, on the state before the accept.
LimitsReject ==
    \/ /\ _queueLimits.queueHeapRequired > 0
       /\ \/ heap.free <= _queueLimits.queueHeapRequired
          \/ heap.block <= ASYNCWEBSERVER_MINIMUM_ALLOC
    \/ /\ _queueLimits.nMax > 0
       /\ Len(_requestQueue) >= _queueLimits.nMax

\* C8 (as amended): an accept that neither check rejects appends the new
\* request to the tail of the queue, tagged QUEUED, provided the request
\* object could be allocated (else the connection is closed and nothing is
\* enqueued); the accept itself runs no scheduling pass.
C8_AcceptEnqueues ==
    [][ (AcceptStep /\ ~CriticalHeap /\ ~LimitsReject)
          => /\ \/ /\ ev' = Event("accept", nextConn, "queued")
                   /\ _requestQueue' =
                        _requestQueue \o << [id |-> nextConn, _parseState |-> QUEUED] >>
                   /\ conn'[nextConn] = "queued"
                \/ /\ ev' = Event("accept", nextConn, "allocfail")
                   /\ _requestQueue' = _requestQueue
                   /\ conn'[nextConn] = "closed"
             /\ UNCHANGED << _queueActive, pc, passLog, _queueLimits >> ]_vars

\* C8 witness: a request was appended behind an ACTIVE one and waits QUEUED,
\* no pass running.
C8_Witness ==
    /\ ev = Event("accept", 2, "queued")
    /\ Len(_requestQueue) = 2
    /\ _requestQueue[1]._parseState = ACTIVE
    /\ _requestQueue[2] = [id |-> 2, _parseState |-> QUEUED]
    /\ pc = "idle"
    /\ ~_queueActive

\* C8 as stated: such an accept appends the request and triggers a
\* scheduling pass within the same event.
C8_Original ==
    [][ (AcceptStep /\ ~CriticalHeap /\ ~LimitsReject /\ conn'[nextConn] = "queued")
          => /\ _requestQueue' # _requestQueue
             /\ \/ pc' # "idle"
                \/ ev'.op \in {"dispatch", "break"} ]_vars

\* What a pass over queue q dispatches first: the first QUEUED entry, when
\* no entry is ACTIVE, or a parallel slot is free and the heap is at or
\* above the threshold.
FirstEligible(q) ==
    IF /\ FirstQueued(q) # NullReq
       /\ \/ ActiveCount(q) = 0
          \/ /\ \/ _queueLimits.nParallel = 0
                \/ ActiveCount(q) < _queueLimits.nParallel
             /\ heap.free >= _queueLimits.requestHeapRequired
                             + _queueLimits.queueHeapRequired
    THEN FirstQueued(q)
    ELSE NullReq

\* C9 (as amended): _dequeue(r) removes exactly r and, when no pass is
\* running, runs a pass within the call; if a QUEUED entry then exists and
\* either no entry is ACTIVE, or a parallel slot is free and the heap is at
\* or above the threshold, the first QUEUED entry is dispatched in the call.
C9_DequeueReschedules ==
    [][ \A r \in ConnIds :
          DequeueStep(r) =>
            LET q == Without(_requestQueue, r)
            IN  /\ [ i \in 1..Len(_requestQueue') |-> _requestQueue'[i].id ]
                     = [ i \in 1..Len(q) |-> q[i].id ]
                /\ ( ~_queueActive =>
                       /\ _queueActive'
                       /\ ev'.res = "_dequeue"
                       /\ ( FirstEligible(q) # NullReq =>
                              /\ ev' = Event("dispatch", FirstEligible(q), "_dequeue")
                              /\ StateOf(_requestQueue', FirstEligible(q)) = ACTIVE
                              /\ passLog' = << FirstEligible(q) >> ) ) ]_vars

\* C9 witness: an ACTIVE request was dequeued at the parallel limit and the
\* waiting entry was dispatched in the same call.
C9_Witness ==
    /\ ev.op = "dispatch"
    /\ ev.res = "_dequeue"
    /\ pc = "handler"
    /\ _queueLimits.nParallel = 1
    /\ ActiveCount(_requestQueue) = 1
    /\ passStart.active = 0
    /\ passLog = << ev.id >>

\* C9 as stated: whenever the removal frees a parallel slot or leaves zero
\* ACTIVE entries and a QUEUED entry exists, that entry is dispatched in the
\* call.
C9_Original ==
    [][ \A r \in ConnIds :
          ( /\ DequeueStep(r)
            /\ ~_queueActive
            /\ FirstQueued(Without(_requestQueue, r)) # NullReq
            /\ \/ ActiveCount(Without(_requestQueue, r)) = 0
               \/ /\ StateOf(_requestQueue, r) = ACTIVE
                  /\ _queueLimits.nParallel > 0
                  /\ ActiveCount(Without(_requestQueue, r)) < _queueLimits.nParallel )
          => ev' = Event("dispatch", FirstQueued(Without(_requestQueue, r)), "_dequeue") ]_vars

\* C10 (as amended): the request queue is built with an empty removal hook,
\* so removing an entry, QUEUED or ACTIVE, invokes no hook; the removal
\* unlinks exactly that entry (the length drops by one, to 0 if it was
\* alone) and a removed request is never dispatched afterwards.
C10_RemovalNoHook ==
    /\ [] ( /\ \A c \in ConnIds : hookCalls[c] = 0
            /\ \A i \in 1..Len(_requestQueue) : conn[_requestQueue[i].id] = "queued" )
    /\ [][ /\ \A r \in ConnIds :
                DequeueStep(r) =>
                  /\ Len(_requestQueue') = Len(_requestQueue) - 1
                  /\ r \notin Ids(_requestQueue')
           /\ ( ev'.op = "dispatch" => conn'[ev'.id] = "queued" ) ]_vars

\* C10 witness: the only request was removed while still QUEUED; the queue
\* is empty again and the pass run by _dequeue found nothing to dispatch.
C10_Witness ==
    /\ ev = Event("break", 0, "_dequeue")
    /\ nextConn = 2
    /\ conn[1] = "closed"
    /\ Len(_requestQueue) = 0
    /\ passLog = << >>
    /\ deferCount = 0
    /\ hookCalls[1] = 0

\* C10 as stated: removing an entry invokes its cleanup hook exactly once.
C10_Original ==
    [][ \A r \in ConnIds : DequeueStep(r) => hookCalls'[r] = 1 ]_vars

\* Some entry of q is tagged DEFERRED.
AnyDeferred(q) == \E i \in 1..Len(q) : q[i]._parseState = DEFERRED

\* C11: when the pass that set the guard returns, every entry tagged DEFERRED
\* is tagged QUEUED again and no other entry changes; whenever no pass is
\* active no queue entry is tagged DEFERRED.
C11_DeferredPassScoped ==
    /\ [] ( ~_queueActive => ~AnyDeferred(_requestQueue) )
    /\ [][ (_queueActive /\ ~_queueActive') =>
             /\ Len(_requestQueue') = Len(_requestQueue)
             /\ \A i \in 1..Len(_requestQueue) :
                  /\ _requestQueue'[i].id = _requestQueue[i].id
                  /\ _requestQueue'[i]._parseState =
                       IF _requestQueue[i]._parseState = DEFERRED
                       THEN QUEUED
                       ELSE _requestQueue[i]._parseState ]_vars

\* C11 witness: a pass whose handler deferred the head request has returned;
\* that request is tagged QUEUED again, at the head, and no pass is active.
C11_Witness ==
    /\ ev = Event("passend", 0, "undeferred")
    /\ ~_queueActive
    /\ pc = "idle"
    /\ deferCount = 1
    /\ Len(_requestQueue) >= 1
    /\ _requestQueue[1]._parseState = QUEUED

\* C12: a zero field limits nothing.  An accept is never rejected for the
\* queue length under nMax = 0 nor for the queue heap under
\* queueHeapRequired = 0; a pass never stops for the ACTIVE count under
\* nParallel = 0 nor for the heap under requestHeapRequired =
\* queueHeapRequired = 0.
C12_ZeroDisables ==
    /\ [] ( (pc = "undefer" /\ FirstQueued(_requestQueue) # NullReq) =>
              /\ ( _queueLimits.nParallel = 0 =>
                     /\ ActiveCount(_requestQueue) > 0
                     /\ heap.free < HeapThreshold(_queueLimits) )
              /\ ( ( /\ _queueLimits.requestHeapRequired = 0
                     /\ _queueLimits.queueHeapRequired = 0 ) =>
                     /\ _queueLimits.nParallel > 0
                     /\ ActiveCount(_requestQueue) >= _queueLimits.nParallel ) )
    /\ [][ (AcceptStep /\ ev'.res = "rejected") =>
             /\ ( _queueLimits.nMax = 0 =>
                    /\ _queueLimits.queueHeapRequired > 0
                    /\ ~heap_ok(_queueLimits.queueHeapRequired) )
             /\ ( _queueLimits.queueHeapRequired = 0 =>
                    /\ _queueLimits.nMax > 0
                    /\ Len(_requestQueue) >= _queueLimits.nMax ) ]_vars

\* C12 witness: under all-zero limits three connections were admitted and the
\* third request is dispatched while the two before it are ACTIVE.
C12_Witness ==
    /\ _queueLimits = [nMax |-> 0, nParallel |-> 0, requestHeapRequired |-> 0,
                       queueHeapRequired |-> 0]
    /\ ev = Event("dispatch", 3, "return")
    /\ Len(_requestQueue) = 3
    /\ ActiveCount(_requestQueue) = 3

\* The first QUEUED entry of q when limits l and the present heap allow its
\* dispatch, NullReq otherwise.
FirstEligibleUnder(l, q) ==
    IF /\ FirstQueued(q) # NullReq
       /\ ~ParallelBlocks(l, ActiveCount(q))
       /\ ~HeapBlocks(ActiveCount(q), heap.free >= HeapThreshold(l))
    THEN FirstQueued(q)
    ELSE NullReq

\* C13 (as amended): setQueueLimits only replaces the limits: the queue
\* contents, every tag, the guard and the position of a running pass stay as
\* they were and no pass is started.  An entry the new limits make eligible
\* is dispatched by the next pass, which decides under the limits then set.
C13_LimitsNoTrigger ==
    [][ /\ ( ev'.op = "setQueueLimits" =>
               /\ _queueLimits' # _queueLimits
               /\ _requestQueue' = _requestQueue
               /\ _queueActive' = _queueActive
               /\ pc' = pc
               /\ passLog' = passLog )
        /\ ( (~_queueActive /\ ev'.res = "processQueue") =>
               LET x == FirstEligibleUnder(_queueLimits, _requestQueue)
               IN  IF x = NullReq
                   THEN ev'.op = "break"
                   ELSE /\ ev' = Event("dispatch", x, "processQueue")
                        /\ StateOf(_requestQueue', x) = ACTIVE ) ]_vars

\* C13 witness: the limits were replaced while no pass ran; request 2 is
\* eligible under the new limits and still QUEUED behind the ACTIVE request 1.
C13_Witness ==
    /\ ev.op = "setQueueLimits"
    /\ ~_queueActive
    /\ pc = "idle"
    /\ Len(_requestQueue) = 2
    /\ _requestQueue[1] = [id |-> 1, _parseState |-> ACTIVE]
    /\ _requestQueue[2] = [id |-> 2, _parseState |-> QUEUED]
    /\ _queueLimits.nParallel # 1
    /\ FirstEligibleUnder(_queueLimits, _requestQueue) = 2

\* C13 as stated: when setQueueLimits replaces limits that were blocking a
\* QUEUED entry by limits that allow it, a pass runs and dispatches it.
C13_Original ==
    [][ ( /\ ev'.op = "setQueueLimits"
          /\ ~_queueActive
          /\ FirstQueued(_requestQueue) # NullReq
          /\ FirstEligibleUnder(_queueLimits, _requestQueue) = NullReq
          /\ FirstEligibleUnder(_queueLimits', _requestQueue) # NullReq )
        => /\ FirstQueued(_requestQueue) \in Ids(_requestQueue')
           /\ StateOf(_requestQueue', FirstQueued(_requestQueue)) = ACTIVE ]_vars

C15_SizedAllOrNothing ==
    bev.op = "sized" =>
      LET b == slots[bev.dst]
          L == bev.len
      IN  /\ b.live
          /\ \/ b._len = L /\ b._data # NullPtr /\ mem[b._data] = L
             \/ b._len = 0 /\ b._data = NullPtr
          /\ (L = 0 => b._data = NullPtr)

\* C15 witness: object 1 was built with length 1 and holds a block of 1
\* byte; object 2 was then asked for 1 byte and the allocation failed.
C15_Witness ==
    /\ bev = BufEvent("sized", 2, 0, 1)
    /\ slots[1] = [live |-> TRUE, _data |-> 1, _len |-> 1]
    /\ slots[2] = [live |-> TRUE, _data |-> NullPtr, _len |-> 0]
    /\ mem[1] = 1
    /\ mem[2] = 0

\* C16: every constructed DynamicBuffer has size() = 0 exactly when its data
\* is null.
C16_LenZeroIffNull ==
    \A d \in BufIds :
      slots[d].live => ( (slots[d]._len = 0) <=> (slots[d]._data = NullPtr) )

\* C17: move construction copies the source's data pointer and size into the
\* new buffer, leaves the source with size() = 0 and null data, and neither
\* allocates nor frees.
C17_MoveConstruct ==
    [][ bev'.op = "moveconstruct" =>
          LET d == bev'.dst
              sr == bev'.src
          IN  /\ slots[sr].live /\ ~slots[d].live
              /\ slots'[d] = slots[sr]
              /\ slots'[sr] = Live(EmptyBuffer)
              /\ mem' = mem ]_vars

\* C17 witness: object 2 was move-constructed from object 1, which held a
\* block of 1 byte at address 1; the block is still allocated.
C17_Witness ==
    /\ bev = BufEvent("moveconstruct", 2, 1, 1)
    /\ slots[2] = [live |-> TRUE, _data |-> 1, _len |-> 1]
    /\ slots[1] = [live |-> TRUE, _data |-> NullPtr, _len |-> 0]
    /\ mem[1] = 1

\* C18 (as amended): move assignment exchanges the two buffers: the
\* destination takes the source's data pointer and size, the source takes what
\* the destination held, and nothing is allocated or freed; the source is
\* left empty exactly when the destination was empty.
C18_MoveAssignSwaps ==
    [][ bev'.op = "moveassign" =>
          LET d == bev'.dst
              sr == bev'.src
          IN  /\ slots'[d] = slots[sr]
              /\ slots'[sr] = slots[d]
              /\ mem' = mem
              /\ ( Fields(slots'[sr]) = EmptyBuffer <=> Fields(slots[d]) = EmptyBuffer ) ]_vars

\* C18 witness: object 1 held the block at address 1 and object 2 the block
\* at address 2; after object 1 = move(object 2) each holds the other's block.
C18_Witness ==
    /\ bev = BufEvent("moveassign", 1, 2, 1)
    /\ slots[1] = [live |-> TRUE, _data |-> 2, _len |-> 1]
    /\ slots[2] = [live |-> TRUE, _data |-> 1, _len |-> 1]
    /\ mem[1] = 1
    /\ mem[2] = 1

\* C18 as stated: move assignment gives the destination the source's buffer
\* and leaves the source with size() = 0 and null data, whatever the
\* destination held.
C18_Original ==
    [][ bev'.op = "moveassign" =>
          /\ Fields(slots'[bev'.dst]) = Fields(slots[bev'.src])
          /\ Fields(slots'[bev'.src]) = EmptyBuffer ]_vars

\* C19: allocateList returns either the empty list or a list of non-null
\* buffers whose sizes sum to total, none larger than max_buffer_size, all
\* but the last of size max_buffer_size and the last of the size that
\* remained; a list holding part of total is never returned, and the blocks
\* of a rolled-back list are freed.
C19_ListAllOrNothing ==
    lpc = "done" =>
      \/ buffers = << >> /\ FreeAddrs(mem) = Addrs
      \/ LET n == Len(buffers)
             mx == listReq.max_buffer_size
         IN  /\ n >= 1
             /\ totalSize(buffers) = listReq.total
             /\ \A i \in 1..n :
                  /\ buffers[i]._data # NullPtr
                  /\ buffers[i]._len >= 1
                  /\ buffers[i]._len <= mx
                  /\ mem[buffers[i]._data] = buffers[i]._len
             /\ \A i \in 1..(n-1) : buffers[i]._len = mx
             /\ buffers[n]._len = listReq.total - (n-1) * mx
             /\ \A i, j \in 1..n : i # j => buffers[i]._data # buffers[j]._data

\* C19 witness: allocateList(5, 3) returned buffers of 3 and 2 bytes.
C19_Witness ==
    /\ lpc = "done"
    /\ listReq = [total |-> 5, max_buffer_size |-> 3]
    /\ Len(buffers) = 2
    /\ buffers[1]._len = 3
    /\ buffers[2]._len = 2
    /\ ~allocFailed

\* C20: with max_buffer_size = 0 and total > 0 the returned list is a single
\* buffer of size total unless malloc refused the block, and is empty only
\* then.
C20_ZeroMaxSingleElement ==
    ( lpc = "done" /\ listReq.max_buffer_size = 0 /\ listReq.total > 0 ) =>
      IF allocFailed
      THEN buffers = << >>
      ELSE /\ Len(buffers) = 1
           /\ buffers[1]._len = listReq.total
           /\ buffers[1]._data # NullPtr

\* C21: for a Walkable over storage of capacity C, whatever calls were made,
\* both offsets lie in 0..C, offset() + roffset() <= C and
\* size() + offset() + roffset() = C.
C21_WindowInvariant ==
    LET C == Len(wbuf)
    IN  /\ _left \in 0..C
        /\ _right \in 0..C
        /\ _left + _right <= C
        /\ WalkSize(wbuf, _left, _right) + _left + _right = C

\* C21 witness: over 3 bytes with 2 consumed from the right, advance(-3) has
\* left the left offset at 0 and a window of 1 byte.
C21_Witness ==
    /\ wev = WalkEvent("advance", -3, TRUE, 0)
    /\ Len(wbuf) = 3
    /\ _left = 0
    /\ _right = 2
    /\ WalkSize(wbuf, _left, _right) = 1

\* The offset the claim gives for a delta d applied to offset off, the other
\* offset being other, over capacity C.
ClampedOffset(off, other, C, d) ==
    IF d > 0
    THEN (IF off + d < C - other THEN off + d ELSE C - other)
    ELSE (IF off + d > 0 THEN off + d ELSE 0)

\* C22: advance(d) sets the left offset to min(left + d, C - right) for d > 0
\* and to max(0, left - |d|) for d <= 0, leaving the right offset and the
\* storage unchanged; radvance(d) does the same with left and right exchanged.
C22_AdvanceClamps ==
    [][ /\ ( wev'.op = "advance" =>
               /\ _left' = ClampedOffset(_left, _right, Len(wbuf), wev'.arg)
               /\ _right' = _right
               /\ wbuf' = wbuf )
        /\ ( wev'.op = "radvance" =>
               /\ _right' = ClampedOffset(_right, _left, Len(wbuf), wev'.arg)
               /\ _left' = _left
               /\ wbuf' = wbuf ) ]_vars

\* C22 witness: over 3 bytes with 1 consumed from the left, radvance(5) has
\* stopped the right offset at 2.
C22_Witness ==
    /\ wev = WalkEvent("radvance", 5, TRUE, 0)
    /\ Len(wbuf) = 3
    /\ _left = 1
    /\ _right = 2

C24_FailureLatched ==
    /\ [](~_valid => [](~_valid))
    /\ [][ ~_valid =>
             /\ pev'.ret = 0
             /\ chain' = chain
             /\ _next' = _next
             /\ _offset' = _offset ]_vars

\* C24 witness: a growing sink that failed to get a block was asked for 2 more
\* bytes while the heap has room again, and took none.
C24_Witness ==
    /\ ~_valid
    /\ _buffer_size > 0
    /\ Len(chain) < MaxElems
    /\ pev = PrintEvent("write", 2, 0, 0, FALSE)

\* Bytes of the chain a write has copied to (a new block holds zeros, the
\* document none).
Copied(c) == Cardinality({ i \in 1..Len(Flat(c)) : Flat(c)[i] # 0 })

\* Bytes before the cursor.
CursorPos == Len(Flat(SubSeq(chain, 1, _next - 1))) + _offset

\* C25: each write returns the number of bytes it copied; the contents of the
\* chain's elements, one after the other, begin with the bytes accepted so far,
\* in order, and the cursor stands right behind them; without growth the bytes
\* accepted never exceed the chain's total size, and a write on a valid sink
\* leaves it valid exactly when it asks for no more bytes than remain.
C25_WriteContiguous ==
    /\ [](/\ Len(accepted) <= Len(Flat(chain))
          /\ SubSeq(Flat(chain), 1, Len(accepted)) = accepted
          /\ CursorPos = Len(accepted))
    /\ [][ pev'.op = "write" =>
             /\ pev'.ret = Copied(chain') - Copied(chain)
             /\ (_buffer_size = 0 /\ _valid) =>
                  (_valid' <=> pev'.len <= Len(Flat(chain)) - Len(accepted)) ]_vars

\* C25 witness: over elements of 2 and 1 bytes without growth, a write of 2
\* bytes after one of 1 byte ended in the second element, filled the chain
\* exactly and left the sink valid.
C25_Witness ==
    /\ _buffer_size = 0
    /\ chain = << << 1, 2 >>, << 3 >> >>
    /\ pev = PrintEvent("write", 2, 2, 2, TRUE)
    /\ _next = 3
    /\ _offset = 0
    /\ _valid

\* C26: beside a BufferListPrint without growth over a one-element chain, a
\* BufferPrint over a buffer of the same size returns the same count for every
\* write, its size() never exceeds its capacity(), and the first size() bytes
\* of its buffer are the accepted bytes in write order.
C26_SingleBufferRefines ==
    (pev.op # "init" /\ _buffer_size = 0 /\ Len(chain) = 1) =>
        /\ pev.bret = pev.ret
        /\ offset <= Len(pbuf)
        /\ SubSeq(pbuf, 1, offset) = accepted

\* The one-member sequence of a one-member set.
SetToSeq1(S) == << CHOOSE v \in S : TRUE >>

\* C27: add appends at the tail, and after any adds and removals an iteration
\* from begin() visits exactly the nodes still allocated, in the order they
\* were added; length() is the number of adds minus the number of removals
\* that returned true.
C27_AddAppends ==
    /\ [](lst # "none" =>
            LET it == Iter(lnodes, _root)
                ids == IdsOf(lnodes, _root)
            IN  /\ \A i, j \in 1..Len(it) : i < j => ids[i] < ids[j]
                /\ { it[i] : i \in 1..Len(it) } = { a \in NodeAddrs : lnodes[a].live }
                /\ length(lnodes, _root) = adds - removed)
    /\ [][ lev'.op = "add" =>
             /\ ValuesOf(lnodes', _root') = ValuesOf(lnodes, _root) \o SetToSeq1(lev'.P)
             /\ IdsOf(lnodes', _root') = Append(IdsOf(lnodes, _root), adds + 1) ]_vars

\* C27 witness: after add(1), add(2), a removal of the first and add(1), the
\* iteration gives 2, 1 while the nodes lie at addresses 2, 1.
C27_Witness ==
    /\ lev.op = "add"
    /\ adds = 3
    /\ removed = 1
    /\ Iter(lnodes, _root) = << 2, 1 >>
    /\ ValuesOf(lnodes, _root) = << 2, 1 >>

\* The sequence q without its k-th member.
WithoutNth(q, k) == [i \in 1..(Len(q) - 1) |-> IF i < k THEN q[i] ELSE q[i + 1]]

\* C28: remove(value) and remove_first(predicate) unlink the first node from
\* the head that matches and no other, keep the order of the rest, call the
\* installed hook once, with the unlinked value, and return true; without a
\* match they return false, change nothing and call no hook.
C28_RemoveFirstMatch ==
    [][ lev'.op \in {"remove", "remove_first"} =>
          LET vals == ValuesOf(lnodes, _root)
              ids == IdsOf(lnodes, _root)
              matches == { i \in 1..Len(vals) : vals[i] \in lev'.P }
          IN  IF matches # {}
              THEN LET k == CHOOSE i \in matches : \A j \in matches : i <= j
                   IN  /\ lev'.ret = "true"
                       /\ IdsOf(lnodes', _root') = WithoutNth(ids, k)
                       /\ ValuesOf(lnodes', _root') = WithoutNth(vals, k)
                       /\ hooked' = IF _onRemove THEN << vals[k] >> ELSE << >>
              ELSE /\ lev'.ret = "false"
                   /\ UNCHANGED << lnodes, _root, _last >>
                   /\ hooked' = << >> ]_vars

\* C28 witness: remove(1) on a list holding 1 twice took the first one out, the
\* hook got 1, and 2, 1 (added second and third) remain.
C28_Witness ==
    /\ lev = LinkEvent("remove", {1}, NullNode, NullNode, "true")
    /\ _onRemove
    /\ hooked = << 1 >>
    /\ ValuesOf(lnodes, _root) = << 2, 1 >>
    /\ IdsOf(lnodes, _root) = << 2, 3 >>

\* C29: remove(iterator, hint) with a non-null hint removes the target when it
\* is the hint's successor; when it is not, or when the target is the end
\* iterator, it returns false, changes nothing and calls no hook.
C29_StaleHintFails ==
    [][ (lev'.op = "removeIt" /\ lev'.where # NullNode) =>
          IF lnodes[lev'.where].next = lev'.t /\ lev'.t # NullNode
          THEN /\ lev'.ret = "true"
               /\ ~lnodes'[lev'.t].live
          ELSE /\ lev'.ret = "false"
               /\ UNCHANGED << lnodes, _root, _last >>
               /\ hooked' = << >> ]_vars

\* C30: free() and the destructor call the installed hook once for each node,
\* in list order, and leave the list empty with every node deleted; on an
\* empty list (a second free()) no hook is called.
C30_FreeTearsDown ==
    [][ lev'.op \in {"free", "destroy"} =>
          /\ hooked' = (IF _onRemove THEN ValuesOf(lnodes, _root) ELSE << >>)
          /\ (_root = NullNode => hooked' = << >>)
          /\ _root' = NullNode
          /\ length(lnodes', _root') = 0
          /\ \A a \in NodeAddrs : ~lnodes'[a].live ]_vars

\* C30 witness: free() of a list of three has called the hook with 2, 1, 2 and
\* left the list empty.
C30_Witness ==
    /\ lev.op = "free"
    /\ _onRemove
    /\ hooked = << 2, 1, 2 >>
    /\ _root = NullNode
    /\ _last = NullNode

\* Elements of a chain that hold no bytes.
ZeroElements(c) == Cardinality({ i \in 1..Len(c) : Len(c[i]) = 0 })

\* C36: a write to a valid growing sink that returns less than it was asked for
\* (it could not get a further element) leaves no zero-size element behind,
\* keeps the elements it had with the bytes accepted before, has added only
\* full elements of _buffer_size bytes, sets valid() false and returns the
\* number of bytes it copied before the failure.
C36_GrowthFailureClean ==
    [][ (pev'.op = "write" /\ _buffer_size > 0 /\ _valid /\ pev'.ret < pev'.len) =>
          /\ ~_valid'
          /\ ZeroElements(chain') = ZeroElements(chain)
          /\ Len(chain') >= Len(chain)
          /\ \A i \in 1..Len(chain) : Len(chain'[i]) = Len(chain[i])
          /\ \A i \in (Len(chain) + 1)..Len(chain') : Len(chain'[i]) = _buffer_size
          /\ SubSeq(Flat(chain'), 1, Len(accepted)) = accepted
          /\ Len(Flat(chain')) = Len(accepted')
          /\ pev'.ret = Copied(chain') - Copied(chain) ]_vars

\* C36 witness: a sink growing by 1 byte over an empty chain was asked for 2
\* bytes, got one block and then none: it holds one element with the first
\* byte, returned 1 and is not valid.
C36_Witness ==
    /\ _buffer_size = 1
    /\ chain = << << 1 >> >>
    /\ pev = PrintEvent("write", 2, 1, 0, TRUE)
    /\ ~_valid

\* C38: whatever calls were made, _root and _last are both null when the list
\* is empty, and otherwise _last is the node the iteration from _root ends
\* with, whose next is null.
C38_LastIsTail ==
    lst # "none" =>
        LET it == Iter(lnodes, _root)
        IN  IF it = << >>
            THEN _root = NullNode /\ _last = NullNode
            ELSE /\ _last = it[Len(it)]
                 /\ lnodes[_last].live
                 /\ lnodes[_last].next = NullNode

\* C38 witness: remove(2) has unlinked the tail of a list of two; the root is
\* the last node now.
C38_Witness ==
    /\ lev = LinkEvent("remove", {2}, NullNode, NullNode, "true")
    /\ adds = 2
    /\ removed = 1
    /\ ValuesOf(lnodes, _root) = << 1 >>
    /\ _last = _root
    /\ _root # NullNode

\* C31: a SharedBuffer that holds nothing (default-constructed or cleared) has
\* size() 0, null data() and a false boolean value, and its copy() returns an
\* empty DynamicBuffer.
C31_EmptySharedBuffer ==
    /\ [](\A h \in Holders : shandles[h] = NullBlock =>
             /\ SharedSize(sblocks, shandles, h) = 0
             /\ SharedDataNull(sblocks, shandles, h)
             /\ ~SharedBool(sblocks, shandles, h))
    /\ [][ (sev'.op = "copy" /\ shandles[sev'.h] = NullBlock) =>
             /\ sev'.ret = "ok"
             /\ scopy' = << >> ]_vars

\* Dispatches made by the running pass plus entries still tagged QUEUED.
PassRank == Len(passLog) + QueuedCount(_requestQueue)

\* C32: a pass that started ends with _queueActive false; the entry a dispatch
\* hands to its handler is no longer tagged QUEUED; no entry is dispatched
\* twice in one pass; and the dispatches of a pass plus the entries still
\* QUEUED never exceed the entries QUEUED when the pass started.
C32_PassTerminates ==
    /\ _queueActive ~> ~_queueActive
    /\ [](/\ \A i, j \in 1..Len(passLog) : i # j => passLog[i] # passLog[j]
          /\ pc = "idle" => ~_queueActive)
    /\ [][ /\ ev'.op = "dispatch" =>
                /\ ev'.id \in Ids(_requestQueue)
                /\ StateOf(_requestQueue, ev'.id) = QUEUED
                /\ StateOf(_requestQueue', ev'.id) # QUEUED
                /\ passLog' = Append(IF _queueActive THEN passLog ELSE << >>, ev'.id)
           /\ _queueActive' =>
                PassRank' <= (IF _queueActive THEN PassRank
                              ELSE QueuedCount(_requestQueue))
           /\ pc = "undefer" => (~_queueActive' /\ pc' = "idle") ]_vars

\* C32 witness: a pass that found three QUEUED entries has dispatched all
\* three, each once, and is about to clear the guard.
C32_Witness ==
    /\ pc = "undefer"
    /\ _queueActive
    /\ Len(passLog) = 3
    /\ QueuedCount(_requestQueue) = 0

\* The stop conditions of the loop over queue q: no QUEUED entry, the
\* parallel limit reached, or an ACTIVE entry and the heap below threshold.
StopHolds(q) ==
    \/ QueuedCount(q) = 0
    \/ ParallelBlocks(_queueLimits, ActiveCount(q))
    \/ ActiveCount(q) > 0 /\ ~PassHeapOk(_queueLimits)

\* C34 (amended): a scheduling pass is greedy.  When the loop of a started
\* pass stops, either no entry is QUEUED, or nParallel > 0 and the ACTIVE
\* count is >= nParallel, or an entry is ACTIVE and the heap probe of that
\* iteration was below the threshold; when the pass returns the same holds
\* unless its final section has just re-tagged DEFERRED entries QUEUED.
C34_GreedyPass ==
    /\ [](pc = "undefer" => StopHolds(_requestQueue))
    /\ [][ev'.op = "passend" =>
            /\ StopHolds(_requestQueue)
            /\ StopHolds(_requestQueue') \/ ev'.res = "undeferred"]_vars

\* A pass dispatched two entries and then stopped on the parallel limit with
\* an entry still QUEUED.
C34_Witness ==
    /\ pc = "undefer"
    /\ Len(passLog) = 2
    /\ QueuedCount(_requestQueue) = 1
    /\ ParallelBlocks(_queueLimits, ActiveCount(_requestQueue))

\* C34 as stated: when a started pass has returned, one of the three stop
\* conditions holds.
C34_Original ==
    ev.op = "passend" => StopHolds(_requestQueue)

\* C35: in the mutex build the mutex is never held while a dispatched
\* handler runs: a thread holds it only inside a guarded block, so a handler
\* that re-enters the controller never waits at a guard() line for a mutex
\* its own thread holds.
C35_MutexNotHeldInHandler ==
    /\ \A t \in Threads : tpc[t] = "handler" => _mutex # t
    /\ \A t \in Threads : (tcall[t] = "handler" /\ tpc[t] \in GuardLines) => _mutex # t
    /\ _mutex # NoThread => tpc[_mutex] \in { Guarded(p) : p \in GuardLines }

\* A handler re-entered _dequeue and its thread holds the mutex inside the
\* guarded block, with an entry ACTIVE.
C35_Witness ==
    \E t \in Threads :
        /\ tcall[t] = "handler"
        /\ tpc[t] = "dqL"
        /\ _mutex = t
        /\ ActiveCount(_requestQueue) > 0

\* C37: in the mutex build the entry chosen under the lock is still in the
\* request queue when its handling callback is invoked.
C37_ChosenStillQueued ==
    [][\A t \in Threads :
          (tpc[t] = "invoke" /\ (tpc'[t] = "handler" \/ mst' = "crashed"))
              => tloc[t].next_queued_request \in Ids(_requestQueue)]_vars

\* C33: no lost wakeup in the mutex build: never is an entry QUEUED with zero
\* ACTIVE entries while no pass runs and no thread is about to start one.
C33_NoLostWakeup ==
    ~ ( /\ mst = "live"
        /\ ~_queueActive
        /\ \A t \in Threads : tpc[t] = "idle"
        /\ QueuedCount(_requestQueue) > 0
        /\ ActiveCount(_requestQueue) = 0 )

====
